---- MODULE Spec2Model ----
(***************************************************************************)
(* Lifecycle engine of the Minecraft test harness                          *)
(* (scripts/test_harness/server.py, class ServerManager).                  *)
(*                                                                         *)
(* One ServerManager instance is driven by a single caller thread.  A      *)
(* public method that blocks (polling loops, sleeps, waits on the child)   *)
(* is a sequence of steps, pc being the position inside the method; the    *)
(* operating system (processes, listening ports, the server log file) is   *)
(* the environment and moves between those steps.  Time is counted in      *)
(* seconds and advances by the sleeps of the code.                         *)
(***************************************************************************)
EXTENDS Integers, Sequences, FiniteSets, TLC

\* ---------------------------------------------------------------- bounds
MaxZombies == 2
MaxLaunches == 2
MaxZombieTimeout == 2
ShortStartup == 6
LongStartup == 24
MaxRetries == 3
MaxRetryDelay == 2
MaxTests == 2

\* ------------------------------------------------------ program constants
ZOMBIE_CLEANUP == 30
RCON_READY_RETRIES == 10
RCON_READY_DELAY == 2
SERVER_PORT == 25565
RCON_PORT == 25575
KillPolls == 3
KillPollSleep == 1
PortPollSleep == 1
ReadyPollSleep == 2

None == 0
Free == 0
Hidden == -1

ports_to_check == <<SERVER_PORT, RCON_PORT>>
PortSet == {SERVER_PORT, RCON_PORT}
Zombies == 1..MaxZombies
ServerPids == (MaxZombies + 1)..(MaxZombies + MaxLaunches)
Pids == Zombies \cup ServerPids
ZombieTimeouts == 0..MaxZombieTimeout
StartTimeouts == {ShortStartup, LongStartup}

Range(s) == {s[i] : i \in DOMAIN s}

VARIABLES
    \* ServerManager fields
    process, server_log_handle, rcon_client,
    \* operating system: processes, listeners, the server log file
    osAlive, port, logMarker, nextPid,
    \* the call in progress
    pc, op, raised, why,
    \* clocks and timeout arguments
    elapsed, timeout, zTimeout,
    \* locals of cleanup_zombie_processes / _kill_process
    pids_to_kill, polls, termed, lastPoll, sigkill,
    \* locals of _wait_for_ready
    log_ready, probes, probeOk,
    \* commands and signals sent by stop()/_force_stop()/cleanup()
    sent,
    \* RCONClient.send_command: arguments, locals, outcome, what it did
    rc_pc, retries, retry_delay, attempt, last_error,
    rc_raised, rc_cause, result, rc_trace, rc_slept,
    \* TestRunner: run_tests and the phase in progress
    r_pc, test_names, idx, run_no, server, created, started, cleaned,
    results, now, executed, run_raised, all_passed,
    \* determinism comparison: the two result lists, their digests, match
    h_pc, run1_results, run2_results, run1_hash, run2_hash, match,
    \* ChunkCalculator: fields and the outcome of calculate_chunks
    c_pc, coordinates, buffer_size, chunks,
    \* _run_performance_test: position, ProfileConfig, the AsyncProfiler,
    \* self.server, the statistics read from the log, the result
    p_pc, p_available, warmup, p99_threshold, profiler_pid, recording,
    rec_started, stop_runs, stop_result, flamegraph_path, perf_server,
    perf_cleaned, p_cmd, stats, p_status, p_error,
    \* main(): position, the command, what escaped run_tests, the exit code
    m_pc, command, m_raised, m_where, exit_code,
    \* one phase at the level of its server sessions: position, the steps
    \* done, the shared server log, what was parsed, compared and reported
    s_pc, s_phase, s_sess, s_step, s_failed, s_trace, s_log, s_parsed,
    s_hashes, s_match, s_found, s_shown, s_status, s_error, s_cleaned

ctrl == <<process, server_log_handle, rcon_client>>
ext == <<osAlive, port, logMarker, nextPid>>
call == <<pc, op, raised, why>>
clocks == <<elapsed, timeout, zTimeout>>
zloc == <<pids_to_kill, polls, termed, lastPoll, sigkill>>
rloc == <<log_ready, probes, probeOk>>
serverVars == <<ctrl, ext, call, clocks, zloc, rloc, sent>>
rconVars == <<rc_pc, retries, retry_delay, attempt, last_error,
              rc_raised, rc_cause, result, rc_trace, rc_slept>>
runnerVars == <<r_pc, test_names, idx, run_no, server, created, started, cleaned,
                results, now, executed, run_raised, all_passed>>
hashVars == <<h_pc, run1_results, run2_results, run1_hash, run2_hash, match>>
chunkVars == <<c_pc, coordinates, buffer_size, chunks>>
profVars == <<p_available, profiler_pid, recording, rec_started, stop_runs,
              stop_result, flamegraph_path>>
perfVars == <<p_pc, warmup, p99_threshold, profVars, perf_server, perf_cleaned,
              p_cmd, stats, p_status, p_error>>
mainVars == <<m_pc, command, m_raised, m_where, exit_code>>
sessVars == <<s_pc, s_phase, s_sess, s_step, s_failed, s_trace, s_log, s_parsed,
              s_hashes, s_match, s_found, s_shown, s_status, s_error, s_cleaned>>
toolVars == <<hashVars, chunkVars, perfVars, mainVars, sessVars>>
vars == <<serverVars, rconVars, runnerVars, toolVars>>

\* Stale listeners are numbered in the order the port scan meets them.
StalePidsInScanOrder(pp) ==
    /\ pp[ports_to_check[1]] \in {Free, Hidden, 1}
    /\ pp[ports_to_check[2]] \in Zombies =>
         pp[ports_to_check[2]] <= (IF pp[ports_to_check[1]] \in Zombies THEN 2 ELSE 1)

\* ------------------------------------------------------------------ Init
\* No result list has been hashed.
HashIdle ==
    /\ h_pc = "idle"
    /\ run1_results = <<>>
    /\ run2_results = <<>>
    /\ run1_hash = <<>>
    /\ run2_hash = <<>>
    /\ match = FALSE

\* ChunkCalculator.__init__: no coordinates, no chunks, buffer size 0.
ChunksIdle ==
    /\ c_pc = "new"
    /\ coordinates = <<>>
    /\ buffer_size = 0
    /\ chunks = {}

\* The statistics of a run whose log holds no profile_stats line.
NoStats == [found |-> FALSE, has_p99 |-> FALSE, p99_ms |-> 0]

\* AsyncProfiler.__init__ and the locals of _run_performance_test before
\* its first statement.
PerfIdle ==
    /\ p_pc = "idle"
    /\ p_available = FALSE
    /\ warmup = FALSE
    /\ p99_threshold = 0
    /\ profiler_pid = None
    /\ recording = FALSE
    /\ rec_started = FALSE
    /\ stop_runs = 0
    /\ stop_result = "none"
    /\ flamegraph_path = "None"
    /\ perf_server = None
    /\ perf_cleaned = FALSE
    /\ p_cmd = 0
    /\ stats = NoStats
    /\ p_status = "none"
    /\ p_error = "none"

\* main() has not been entered.
MainIdle ==
    /\ m_pc = "idle"
    /\ command = "none"
    /\ m_raised = "none"
    /\ m_where = "none"
    /\ exit_code = -1

\* No phase is in progress; the server log file is empty.
SessIdle ==
    /\ s_pc = "idle"
    /\ s_phase = "none"
    /\ s_sess = 0
    /\ s_step = 0
    /\ s_failed = FALSE
    /\ s_trace = <<>>
    /\ s_log = <<>>
    /\ s_parsed = <<>>
    /\ s_hashes = <<>>
    /\ s_match = FALSE
    /\ s_found = 0
    /\ s_shown = <<>>
    /\ s_status = "none"
    /\ s_error = "none"
    /\ s_cleaned = {}

ToolsIdle ==
    /\ HashIdle
    /\ ChunksIdle
    /\ PerfIdle
    /\ MainIdle
    /\ SessIdle

\* No send_command call has been made.
RconIdle ==
    /\ rc_pc = "idle"
    /\ retries = 0
    /\ retry_delay = 0
    /\ attempt = 0
    /\ last_error = "None"
    /\ rc_raised = "none"
    /\ rc_cause = "None"
    /\ result = "None"
    /\ rc_trace = <<>>
    /\ rc_slept = 0

\* TestRunner.__init__: no server, an empty report.
RunnerIdle ==
    /\ r_pc = "idle"
    /\ test_names = <<>>
    /\ idx = 0
    /\ run_no = 0
    /\ server = None
    /\ created = 0
    /\ started = {}
    /\ cleaned = {}
    /\ results = <<>>
    /\ now = 0
    /\ executed = <<>>
    /\ run_raised = "none"
    /\ all_passed = TRUE

\* ServerManager.__init__: no process, no log handle, no client.  The
\* machine may already have stale listeners on the two required ports.
Init ==
    /\ RconIdle
    /\ RunnerIdle
    /\ ToolsIdle
    /\ process = None
    /\ server_log_handle = "None"
    /\ rcon_client = FALSE
    /\ port \in [PortSet -> {Free, Hidden} \cup Zombies]
    /\ StalePidsInScanOrder(port)
    /\ osAlive = [p \in Pids |-> \E pt \in PortSet : port[pt] = p]
    /\ logMarker \in BOOLEAN
    /\ nextPid = MaxZombies + 1
    /\ pc = "idle"
    /\ op = "init"
    /\ raised = "none"
    /\ why = "none"
    /\ elapsed = 0
    /\ timeout = 0
    /\ zTimeout = 0
    /\ pids_to_kill = <<>>
    /\ polls = 0
    /\ termed = FALSE
    /\ lastPoll = "none"
    /\ sigkill = {}
    /\ log_ready = FALSE
    /\ probes = 0
    /\ probeOk = FALSE
    /\ sent = <<>>

\* ----------------------------------------------------------- environment
\* A process exits (on its own, or because of a signal or a stop command
\* it received earlier); its listening sockets are released.
ProcExit(p) ==
    /\ osAlive[p]
    /\ osAlive' = [osAlive EXCEPT ![p] = FALSE]
    /\ port' = [pt \in PortSet |-> IF port[pt] = p THEN Free ELSE port[pt]]
    /\ UNCHANGED <<logMarker, nextPid>>
    /\ UNCHANGED <<ctrl, call, clocks, zloc, rloc, sent>>
    /\ UNCHANGED <<rconVars, runnerVars, toolVars>>

\* A listener whose owner ss cannot show goes away.
HiddenRelease(pt) ==
    /\ port[pt] = Hidden
    /\ port' = [port EXCEPT ![pt] = Free]
    /\ UNCHANGED <<osAlive, logMarker, nextPid>>
    /\ UNCHANGED <<ctrl, call, clocks, zloc, rloc, sent>>
    /\ UNCHANGED <<rconVars, runnerVars, toolVars>>

\* A launched server prints "Done (..s)! For help" to its stdout, which is
\* the shared server_stdout.log.
ServerLogsDone(p) ==
    /\ p \in ServerPids
    /\ osAlive[p]
    /\ ~logMarker
    /\ logMarker' = TRUE
    /\ UNCHANGED <<osAlive, port, nextPid>>
    /\ UNCHANGED <<ctrl, call, clocks, zloc, rloc, sent>>
    /\ UNCHANGED <<rconVars, runnerVars, toolVars>>

\* --------------------------------------------------------- call prologue
\* Every public call starts with fresh locals and a fresh record of what
\* it sent.
CallReset ==
    /\ raised' = "none"
    /\ why' = "none"
    /\ log_ready' = FALSE
    /\ probes' = 0
    /\ probeOk' = FALSE
    /\ sent' = <<>>

\* The locals of cleanup_zombie_processes die with its frame.
ClearZ ==
    /\ pids_to_kill' = <<>>
    /\ polls' = 0
    /\ termed' = FALSE
    /\ lastPoll' = "none"
    /\ sigkill' = {}
    /\ zTimeout' = 0

\* -------------------------------------------- cleanup_zombie_processes
\* start(): entry; the pre-start cleanup runs with its default timeout.
Start(t) ==
    /\ pc = "idle"
    /\ nextPid <= MaxZombies + MaxLaunches
    /\ CallReset
    /\ op' = "start"
    /\ pc' = "z_scan"
    /\ timeout' = t
    /\ zTimeout' = ZOMBIE_CLEANUP
    /\ UNCHANGED <<ctrl, ext, elapsed, pids_to_kill, polls, termed, lastPoll, sigkill>>
    /\ UNCHANGED <<rconVars, runnerVars, toolVars>>

\* cleanup_zombie_processes(timeout) called on its own.
CleanupZombies(t) ==
    /\ pc = "idle"
    /\ CallReset
    /\ op' = "cleanup_zombie_processes"
    /\ pc' = "z_scan"
    /\ zTimeout' = t
    /\ UNCHANGED <<ctrl, ext, elapsed, timeout, pids_to_kill, polls, termed, lastPoll, sigkill>>
    /\ UNCHANGED <<rconVars, runnerVars, toolVars>>

\* One `ss` run per port.  A run that fails (timeout, any exception) yields
\* no PID; a LISTEN line without users:(..pid=..) yields no PID either.
ScanPort(found, pt, err) ==
    IF ~err /\ port[pt] \in Pids /\ port[pt] \notin Range(found)
    THEN Append(found, port[pt])
    ELSE found

ScanPids(errs) ==
    ScanPort(ScanPort(<<>>, ports_to_check[1], errs[ports_to_check[1]]),
             ports_to_check[2], errs[ports_to_check[2]])

\* Variant: the early return is missing; the port wait always runs.
NothingToKill_NoEarlyReturn(found) == FALSE

\* `if not pids_to_kill: return`
NothingToKill(found) == found = <<>>

\* Variant: start() launches right after the zombie cleanup.
AfterZombieCleanup_SkipsDeletion(o) == IF o = "start" THEN "launch" ELSE "idle"

\* Where a normal return of cleanup_zombie_processes leads: in start()
\* to self.delete_world(), for a direct call back to the caller.
AfterZombieCleanup(o) == IF o = "start" THEN "delete_world" ELSE "idle"

\* cleanup_zombie_processes returns normally; in start() the world
\* deletion follows.
ZReturn ==
    /\ ClearZ
    /\ UNCHANGED <<op, raised, why, timeout>>
    /\ pc' = AfterZombieCleanup(op)
    /\ IF op = "start"
       THEN UNCHANGED elapsed
       ELSE elapsed' = 0

\* cleanup_zombie_processes raises PortInUseError; start() lets it through.
ZRaise ==
    /\ ClearZ
    /\ pc' = "idle"
    /\ raised' = "PortInUseError"
    /\ why' = "ports"
    /\ elapsed' = 0
    /\ timeout' = 0
    /\ UNCHANGED op

ZScan ==
    /\ pc = "z_scan"
    /\ \E errs \in [PortSet -> BOOLEAN] :
         IF NothingToKill(ScanPids(errs))
         THEN ZReturn
         ELSE /\ pids_to_kill' = ScanPids(errs)
              /\ pc' = IF ScanPids(errs) = <<>> THEN "z_wait" ELSE "z_check"
              /\ UNCHANGED <<op, raised, why, clocks, polls, termed, lastPoll, sigkill>>
    /\ UNCHANGED <<ctrl, ext, rloc, sent>>
    /\ UNCHANGED <<rconVars, runnerVars, toolVars>>

\* After _kill_process(pid) returns: next PID, or the port wait.
NextPid ==
    /\ pids_to_kill' = Tail(pids_to_kill)
    /\ polls' = 0
    /\ termed' = FALSE
    /\ lastPoll' = "none"
    /\ pc' = IF Len(pids_to_kill) > 1 THEN "z_check" ELSE "z_wait"

\* What os.kill(pid, 0) tells about the PID.
Probe(alive) == IF alive THEN "alive" ELSE "gone"

\* _kill_process: os.kill(pid, 0).
ZKillCheck ==
    /\ pc = "z_check"
    /\ LET pid == Head(pids_to_kill) IN
       \/ /\ ~osAlive[pid]                \* ProcessLookupError
          /\ NextPid
       \/ /\ osAlive[pid]                 \* PermissionError
          /\ NextPid
       \/ /\ osAlive[pid]
          /\ pc' = "z_term"
          /\ lastPoll' = Probe(osAlive[pid])
          /\ UNCHANGED <<pids_to_kill, polls, termed>>
    /\ UNCHANGED <<ctrl, ext, op, raised, why, clocks, sigkill, rloc, sent>>
    /\ UNCHANGED <<rconVars, runnerVars, toolVars>>

\* _kill_process: os.kill(pid, SIGTERM).
ZKillTerm ==
    /\ pc = "z_term"
    /\ LET pid == Head(pids_to_kill) IN
       \/ /\ ~osAlive[pid]                \* ProcessLookupError
          /\ NextPid
       \/ /\ osAlive[pid]                 \* PermissionError
          /\ NextPid
       \/ /\ osAlive[pid]
          /\ termed' = TRUE
          /\ pc' = "z_poll"
          /\ UNCHANGED <<pids_to_kill, polls, lastPoll>>
    /\ UNCHANGED <<ctrl, ext, op, raised, why, clocks, sigkill, rloc, sent>>
    /\ UNCHANGED <<rconVars, runnerVars, toolVars>>

\* Variant: the poll no longer notices that the PID is gone.
KillPollDecision_IgnoresExit(el, zt, alive, n) ==
    IF el > zt THEN "break"
    ELSE IF n + 1 >= KillPolls THEN "exhausted"
    ELSE "again"

\* Decision of one iteration of `for _ in range(3)` after its sleep(1);
\* n polls of the PID were made before.
KillPollDecision(el, zt, alive, n) ==
    IF el > zt THEN "break"
    ELSE IF ~alive THEN "return"
    ELSE IF n + 1 >= KillPolls THEN "exhausted"
    ELSE "again"

\* _kill_process: sleep(1), budget check, os.kill(pid, 0).
ZKillPoll ==
    /\ pc = "z_poll"
    /\ elapsed' = elapsed + KillPollSleep
    /\ LET pid == Head(pids_to_kill)
           d == KillPollDecision(elapsed + KillPollSleep, zTimeout, osAlive[pid], polls)
       IN  CASE d = "break" ->
                  /\ pc' = "z_kill"
                  /\ UNCHANGED <<pids_to_kill, polls, termed, lastPoll>>
             [] d = "return" ->
                  /\ NextPid
             [] d = "exhausted" ->
                  /\ pc' = "z_kill"
                  /\ polls' = polls + 1
                  /\ lastPoll' = Probe(osAlive[pid])
                  /\ UNCHANGED <<pids_to_kill, termed>>
             [] OTHER ->
                  /\ pc' = "z_poll"
                  /\ polls' = polls + 1
                  /\ lastPoll' = Probe(osAlive[pid])
                  /\ UNCHANGED <<pids_to_kill, termed>>
    /\ UNCHANGED <<ctrl, ext, op, raised, why, timeout, zTimeout, sigkill, rloc, sent>>
    /\ UNCHANGED <<rconVars, runnerVars, toolVars>>

\* _kill_process: os.kill(pid, SIGKILL); a failure is swallowed.
ZKillKill ==
    /\ pc = "z_kill"
    /\ LET pid == Head(pids_to_kill) IN
       \/ /\ osAlive[pid]
          /\ sigkill' = sigkill \cup {pid}
       \/ /\ UNCHANGED sigkill            \* ProcessLookupError, PermissionError
    /\ NextPid
    /\ UNCHANGED <<ctrl, ext, op, raised, why, clocks, rloc, sent>>
    /\ UNCHANGED <<rconVars, runnerVars, toolVars>>

\* One pass of _wait_for_ports_free over the ports: a port counts as bound
\* when its ss run worked and printed a LISTEN line for it.
SeenBound(errs) == \E pt \in PortSet : ~errs[pt] /\ port[pt] # Free

\* Variant: running out of time counts as "ports free".
PortWaitDecision_TimeoutIsFree(el, zt, bound) ==
    IF ~(el < zt) THEN "free"
    ELSE IF ~bound THEN "free"
    ELSE "sleep"

PortWaitDecision(el, zt, bound) ==
    IF ~(el < zt) THEN "timeout"
    ELSE IF ~bound THEN "free"
    ELSE "sleep"

\* _wait_for_ports_free, one iteration, and the raise in the caller.
ZWaitPorts ==
    /\ pc = "z_wait"
    /\ \E errs \in [PortSet -> BOOLEAN] :
         LET d == PortWaitDecision(elapsed, zTimeout, SeenBound(errs)) IN
         CASE d = "timeout" -> ZRaise
           [] d = "free" -> ZReturn
           [] OTHER -> /\ elapsed' = elapsed + PortPollSleep
                       /\ UNCHANGED <<call, timeout, zloc, zTimeout>>
    /\ UNCHANGED <<ctrl, ext, rloc, sent>>
    /\ UNCHANGED <<rconVars, runnerVars, toolVars>>

\* ------------------------------------------------------------ start()
\* start() raises: the exception leaves start() as it is, nothing is
\* released on the way out.
StartRaise(exc, reason) ==
    /\ pc' = "idle"
    /\ raised' = exc
    /\ why' = reason
    /\ elapsed' = 0
    /\ timeout' = 0
    /\ UNCHANGED <<op, zTimeout>>

\* delete_world: rmtree of the world directory; an error is only logged.
DeleteWorld ==
    /\ pc = "delete_world"
    /\ pc' = "launch"
    /\ UNCHANGED <<ctrl, ext, op, raised, why, clocks, zloc, rloc, sent>>
    /\ UNCHANGED <<rconVars, runnerVars, toolVars>>

\* What a failed Popen leaves in server_log_handle: the handle is closed,
\* the attribute keeps the closed file object.
HandleAfterLaunchFailure == "closed"

\* start(): open the log with mode "w", Popen, then enter _wait_for_ready
\* with what is left of the timeout.
Launch ==
    /\ pc = "launch"
    /\ \/ /\ StartRaise("OSError", "open")           \* open() itself fails
          /\ UNCHANGED <<ctrl, ext>>
       \/ /\ StartRaise("ServerStartupError", "launch")
          /\ server_log_handle' = HandleAfterLaunchFailure
          /\ logMarker' = FALSE
          /\ UNCHANGED <<process, rcon_client, osAlive, port, nextPid>>
       \/ /\ server_log_handle' = "open"
          /\ logMarker' = FALSE
          /\ process' = nextPid
          /\ osAlive' = [osAlive EXCEPT ![nextPid] = TRUE]
          /\ nextPid' = nextPid + 1
          /\ timeout' = timeout - elapsed
          /\ elapsed' = 0
          /\ pc' = "phase1"
          /\ UNCHANGED <<rcon_client, port, zTimeout, op, raised, why>>
    /\ UNCHANGED <<zloc, rloc, sent>>
    /\ UNCHANGED <<rconVars, runnerVars, toolVars>>

\* Variant: an exited child is reported like a startup timeout.
Phase1Decision_CrashAsTimeout(el, to, exited, found) ==
    IF ~(el < to) THEN "timeout"
    ELSE IF exited THEN "timeout"
    ELSE IF found THEN "ready"
    ELSE "sleep"

\* One iteration of the phase 1 loop of _wait_for_ready.
Phase1Decision(el, to, exited, found) ==
    IF ~(el < to) THEN "timeout"
    ELSE IF exited THEN "crash"
    ELSE IF found THEN "ready"
    ELSE "sleep"

\* Variant: the check of log_ready after the loop is missing.
AfterPhase1_NoRaise(ready) == "phase2"

\* `if not log_ready: raise` after the phase 1 loop.
AfterPhase1(ready) == IF ready THEN "phase2" ELSE "raise"

\* _wait_for_ready, phase 1: poll the child, read the log, sleep(2).
Phase1Poll ==
    /\ pc = "phase1"
    /\ \E readOk \in BOOLEAN :
         LET exited == process # None /\ ~osAlive[process]
             d == Phase1Decision(elapsed, timeout, exited, readOk /\ logMarker)
         IN  CASE d = "timeout" ->
                    /\ IF AfterPhase1(log_ready) = "raise"
                       THEN StartRaise("ServerStartupError", "timeout")
                       ELSE pc' = "phase2" /\ UNCHANGED <<op, raised, why, clocks>>
                    /\ UNCHANGED log_ready
               [] d = "crash" ->
                    /\ StartRaise("ServerCrashError", "exited")
                    /\ UNCHANGED log_ready
               [] d = "ready" ->
                    /\ log_ready' = TRUE
                    /\ pc' = AfterPhase1(TRUE)
                    /\ UNCHANGED <<op, raised, why, clocks>>
               [] OTHER ->
                    /\ elapsed' = elapsed + ReadyPollSleep
                    /\ UNCHANGED <<call, timeout, zTimeout, log_ready>>
    /\ UNCHANGED <<ctrl, ext, zloc, probes, probeOk, sent>>
    /\ UNCHANGED <<rconVars, runnerVars, toolVars>>

\* Variant: a spent probe budget is taken for readiness.
ProbeDecision_ReadyWhenExhausted(ok, el, to, n) ==
    IF ok THEN "return"
    ELSE IF el >= to THEN "break"
    ELSE IF n + 1 >= RCON_READY_RETRIES THEN "return"
    ELSE "again"

\* Variant: the first failed probe ends the loop.
ProbeDecision_GivesUpAtOnce(ok, el, to, n) ==
    IF ok THEN "return" ELSE "break"

\* One iteration of the phase 2 loop: n probes were made before this one.
ProbeDecision(ok, el, to, n) ==
    IF ok THEN "return"
    ELSE IF el >= to THEN "break"
    ELSE IF n + 1 >= RCON_READY_RETRIES THEN "exhausted"
    ELSE "again"

\* start() after _wait_for_ready returned: self.rcon_client = RCONClient().
ClientAfterReady == TRUE

\* _wait_for_ready, phase 2: test_connection, budget check, sleep; and the
\* tail of start() when the probe succeeded.
Phase2Probe ==
    /\ pc = "phase2"
    /\ \E ok \in BOOLEAN :
         /\ ok => (osAlive[process] \/ port[RCON_PORT] # Free)
         /\ probes' = probes + 1
         /\ probeOk' = ok
         /\ LET d == ProbeDecision(ok, elapsed, timeout, probes) IN
            CASE d = "return" ->
                   /\ rcon_client' = ClientAfterReady
                   /\ pc' = "idle"
                   /\ elapsed' = 0
                   /\ timeout' = 0
                   /\ UNCHANGED <<op, raised, why, zTimeout>>
              [] d = "break" ->
                   /\ StartRaise("ServerStartupError", "rcon")
                   /\ UNCHANGED rcon_client
              [] d = "exhausted" ->
                   /\ StartRaise("ServerStartupError", "rcon")
                   /\ UNCHANGED rcon_client
              [] OTHER ->
                   /\ elapsed' = elapsed + RCON_READY_DELAY
                   /\ UNCHANGED <<call, timeout, zTimeout, rcon_client>>
    /\ UNCHANGED <<process, server_log_handle, ext, zloc, log_ready, sent>>
    /\ UNCHANGED <<rconVars, runnerVars, toolVars>>

\* ------------------------------------------------- stop() and cleanup()
\* Variant: stop() goes for the signals without waiting for the exit.
StopEntry_StraightToSignals(client) == IF client THEN "stop_save" ELSE "force_term"

\* Variant: _cleanup_handles forgets self.rcon_client.
CleanupHandles_KeepsClient(c) == <<None, "None", c[3]>>

\* Variant: _cleanup_handles forgets self.server_log_handle.
CleanupHandles_KeepsLog(c) == <<None, c[2], FALSE>>

\* _cleanup_handles: close the log handle (an error is swallowed) and null
\* the three attributes.
CleanupHandles(c) == <<None, "None", FALSE>>

SetCtrl(c) ==
    /\ process' = c[1]
    /\ server_log_handle' = c[2]
    /\ rcon_client' = c[3]

\* stop(): `if self.process is None: return`
NothingToStop(p) == p = None

\* Variant: without a client stop() returns at once.
StopEntry_NoClientNoStop(client) == IF client THEN "stop_save" ELSE "idle"

\* stop(): the channel commands are tried only with a client.
StopEntry(client) == IF client THEN "stop_save" ELSE "stop_wait"

\* stop() called by the user.
Stop ==
    /\ pc = "idle"
    /\ CallReset
    /\ op' = "stop"
    /\ pc' = IF NothingToStop(process) THEN "idle" ELSE StopEntry(rcon_client)
    /\ UNCHANGED <<ctrl, ext, clocks, zloc>>
    /\ UNCHANGED <<rconVars, runnerVars, toolVars>>

\* cleanup(): stop() inside try, then _cleanup_handles, then the last
\* `if self.process is not None` check.
Cleanup ==
    /\ pc = "idle"
    /\ CallReset
    /\ op' = "cleanup"
    /\ IF NothingToStop(process)
       THEN pc' = "idle" /\ SetCtrl(CleanupHandles(ctrl))
       ELSE pc' = StopEntry(rcon_client) /\ UNCHANGED ctrl
    /\ UNCHANGED <<ext, clocks, zloc>>
    /\ UNCHANGED <<rconVars, runnerVars, toolVars>>

\* End of stop(): _cleanup_handles; under cleanup() the second
\* _cleanup_handles and the process check find nothing left to do.
Finish ==
    /\ SetCtrl(CleanupHandles(ctrl))
    /\ pc' = "idle"
    /\ UNCHANGED <<op, raised, why>>

\* The child exits: seen from inside a wait().
Exits(p) ==
    /\ osAlive' = [osAlive EXCEPT ![p] = FALSE]
    /\ port' = [pt \in PortSet |-> IF port[pt] = p THEN Free ELSE port[pt]]
    /\ UNCHANGED <<logMarker, nextPid>>

\* Variant: a failed channel command ends stop() with the exception.
AfterCommand_FailureEndsStop(ok, next) == IF ok THEN next ELSE "raise"

\* stop(): each channel command sits in its own try/except Exception; a
\* failure (connection error, timeout) is logged and stop() goes on.
AfterCommand(ok, next) == next

ChannelStep(d) ==
    IF d = "raise"
    THEN pc' = "idle" /\ raised' = "RCONConnectionError"
    ELSE pc' = d /\ UNCHANGED raised

\* stop(): save-all over the channel, sleep(3) on success; errors are logged.
StopSave ==
    /\ pc = "stop_save"
    /\ \E ok \in BOOLEAN :
         /\ sent' = Append(sent, IF ok THEN "save-all" ELSE "save-all:failed")
         /\ ChannelStep(AfterCommand(ok, "stop_cmd"))
    /\ UNCHANGED <<ctrl, ext, op, why, clocks, zloc, rloc>>
    /\ UNCHANGED <<rconVars, runnerVars, toolVars>>

\* stop(): stop over the channel; errors are logged.
StopCmd ==
    /\ pc = "stop_cmd"
    /\ \E ok \in BOOLEAN :
         /\ sent' = Append(sent, IF ok THEN "stop" ELSE "stop:failed")
         /\ ChannelStep(AfterCommand(ok, "stop_wait"))
    /\ UNCHANGED <<ctrl, ext, op, why, clocks, zloc, rloc>>
    /\ UNCHANGED <<rconVars, runnerVars, toolVars>>

\* Variant: the wait for the exit has no timeout.
WaitTimesOut_Never(alive) == FALSE

\* process.wait(timeout=timeout) raises TimeoutExpired when the child is
\* still running after timeout seconds.
WaitTimesOut(alive) == alive

\* stop(): process.wait(timeout); TimeoutExpired leads into _force_stop.
StopWait ==
    /\ pc = "stop_wait"
    /\ \/ /\ ~osAlive[process]
          /\ Finish
          /\ UNCHANGED ext
       \/ /\ osAlive[process]
          /\ Exits(process)
          /\ Finish
       \/ /\ WaitTimesOut(osAlive[process])
          /\ pc' = "force_term"
          /\ UNCHANGED <<ctrl, ext, op, raised, why>>
    /\ UNCHANGED <<clocks, zloc, rloc, sent>>
    /\ UNCHANGED <<rconVars, runnerVars, toolVars>>

\* _force_stop: terminate(), wait(GRACEFUL_KILL).
ForceTerm ==
    /\ pc = "force_term"
    /\ \/ /\ sent' = Append(sent, "SIGTERM")
          /\ IF osAlive[process] THEN Exits(process) ELSE UNCHANGED ext
          /\ Finish
       \/ /\ osAlive[process]                       \* TimeoutExpired
          /\ sent' = Append(sent, "SIGTERM")
          /\ pc' = "force_kill"
          /\ UNCHANGED <<ctrl, ext, op, raised, why>>
       \/ /\ osAlive[process]                       \* terminate() raises
          /\ sent' = Append(sent, "SIGTERM:failed")
          /\ pc' = "force_kill"
          /\ UNCHANGED <<ctrl, ext, op, raised, why>>
    /\ UNCHANGED <<clocks, zloc, rloc>>
    /\ UNCHANGED <<rconVars, runnerVars, toolVars>>

\* _force_stop: kill(), wait(5); whatever happens is logged, and stop()
\* goes on to _cleanup_handles.
ForceKill ==
    /\ pc = "force_kill"
    /\ \/ /\ sent' = Append(sent, "SIGKILL")
          /\ IF osAlive[process] THEN Exits(process) ELSE UNCHANGED ext
       \/ /\ sent' = Append(sent, "SIGKILL")         \* wait(5) times out
          /\ osAlive[process]
          /\ UNCHANGED ext
       \/ /\ sent' = Append(sent, "SIGKILL:failed")  \* kill() raises
          /\ UNCHANGED ext
    /\ Finish
    /\ UNCHANGED <<clocks, zloc, rloc>>
    /\ UNCHANGED <<rconVars, runnerVars, toolVars>>

\* get_rcon(): RuntimeError without a client.
GetRcon ==
    /\ pc = "idle"
    /\ CallReset
    /\ op' = "get_rcon"
    /\ raised' = IF rcon_client THEN "none" ELSE "RuntimeError"
    /\ pc' = "idle"
    /\ UNCHANGED <<ctrl, ext, clocks, zloc>>
    /\ UNCHANGED <<rconVars, runnerVars, toolVars>>

\* ------------------------------------------- RCONClient.send_command
\* (scripts/test_harness/rcon.py)
RetryBudgets == 0..MaxRetries
RetryDelays == 1..MaxRetryDelay

\* What one _execute_mcrcon call can do: return the output, run into the
\* subprocess timeout, end with a non-zero exit status of mcrcon, or fail
\* with any other exception (mcrcon cannot be executed).
Outcomes == {"ok", "TimeoutExpired", "CalledProcessError", "OSError"}
ConnectionErrors == {"CalledProcessError", "OSError"}

\* The server side stays as constructed while the channel client is looked
\* at on its own.
ServerQuiet ==
    /\ process = None
    /\ server_log_handle = "None"
    /\ rcon_client = FALSE
    /\ port = [pt \in PortSet |-> Free]
    /\ osAlive = [p \in Pids |-> FALSE]
    /\ logMarker = FALSE
    /\ nextPid = MaxZombies + 1
    /\ pc = "idle"
    /\ op = "init"
    /\ raised = "none"
    /\ why = "none"
    /\ elapsed = 0
    /\ timeout = 0
    /\ zTimeout = 0
    /\ pids_to_kill = <<>>
    /\ polls = 0
    /\ termed = FALSE
    /\ lastPoll = "none"
    /\ sigkill = {}
    /\ log_ready = FALSE
    /\ probes = 0
    /\ probeOk = FALSE
    /\ sent = <<>>

InitRcon ==
    /\ ServerQuiet
    /\ RconIdle
    /\ RunnerIdle
    /\ ToolsIdle

\* send_command(command, timeout, retries, retry_delay): entry.
SendCommand(r, d) ==
    /\ rc_pc = "idle"
    /\ retries' = r
    /\ retry_delay' = d
    /\ attempt' = 0
    /\ last_error' = "None"
    /\ rc_raised' = "none"
    /\ rc_cause' = "None"
    /\ result' = "None"
    /\ rc_trace' = <<>>
    /\ rc_slept' = 0
    /\ rc_pc' = "attempt"
    /\ UNCHANGED <<serverVars, runnerVars, toolVars>>

\* Variant: a timed-out command is retried like a connection failure.
AttemptDecision_TimeoutRetried(o, a, r) ==
    IF o = "ok" THEN "return"
    ELSE IF a < r THEN "retry"
    ELSE "give_up"

\* Variant: no sleep before the next attempt.
RetrySleep_None(d) == 0

\* Variant: one attempt more than the budget allows.
AttemptDecision_OneMore(o, a, r) ==
    IF o = "ok" THEN "return"
    ELSE IF o = "TimeoutExpired" THEN "raise_timeout"
    ELSE IF a < r + 1 THEN "retry"
    ELSE "give_up"

\* One iteration of `for attempt in range(retries + 1)`: what the except
\* clauses make of the outcome of _execute_mcrcon.
AttemptDecision(o, a, r) ==
    IF o = "ok" THEN "return"
    ELSE IF o = "TimeoutExpired" THEN "raise_timeout"
    ELSE IF a < r THEN "retry"
    ELSE "give_up"

\* time.sleep(retry_delay) between two attempts.
RetrySleep(d) == d

\* The exception send_command raises once the loop is used up:
\* RCONConnectionError, whatever the underlying failure was.
ExhaustedError(o) == "RCONConnectionError"

\* One attempt of send_command and what follows it: return, raise, or
\* sleep and go round again.
Attempt ==
    /\ rc_pc = "attempt"
    /\ \E o \in Outcomes :
         LET d == AttemptDecision(o, attempt, retries) IN
         CASE d = "return" ->
                /\ result' = "response"
                /\ rc_trace' = Append(rc_trace, o)
                /\ rc_pc' = "idle"
                /\ UNCHANGED <<attempt, last_error, rc_raised, rc_cause, rc_slept>>
           [] d = "raise_timeout" ->
                /\ rc_raised' = "RCONTimeoutError"
                /\ rc_cause' = o
                /\ rc_trace' = Append(rc_trace, o)
                /\ rc_pc' = "idle"
                /\ UNCHANGED <<attempt, last_error, result, rc_slept>>
           [] d = "retry" ->
                /\ last_error' = o
                /\ rc_trace' = rc_trace \o
                     (IF RetrySleep(retry_delay) > 0 THEN <<o, "sleep">> ELSE <<o>>)
                /\ rc_slept' = rc_slept + RetrySleep(retry_delay)
                /\ attempt' = attempt + 1
                /\ UNCHANGED <<rc_pc, rc_raised, rc_cause, result>>
           [] OTHER ->
                /\ last_error' = o
                /\ rc_raised' = ExhaustedError(o)
                /\ rc_cause' = o
                /\ rc_trace' = Append(rc_trace, o)
                /\ rc_pc' = "idle"
                /\ UNCHANGED <<attempt, result, rc_slept>>
    /\ UNCHANGED <<retries, retry_delay>>
    /\ UNCHANGED <<serverVars, runnerVars, toolVars>>

NextRcon ==
    \/ \E r \in RetryBudgets, d \in RetryDelays : SendCommand(r, d)
    \/ Attempt

SpecRcon == InitRcon /\ [][NextRcon]_vars

\* --------------------------------------------------------- TestRunner
\* (scripts/test_harness/runner.py).  A phase is a sequence of steps; a
\* step takes time and may raise.  The controller behind self.server is
\* seen through the calls made on it: ServerManager(), start(), cleanup().
PhaseNames == {"accuracy", "determinism", "performance"}
TestNames == PhaseNames \cup {"unknown"}
TestLists == UNION {[1..n -> TestNames] : n \in 0..MaxTests}

InitRunner ==
    /\ ServerQuiet
    /\ RconIdle
    /\ RunnerIdle
    /\ ToolsIdle

\* run_tests(test_names): entry, up to the for loop.
RunTests(names) ==
    /\ r_pc = "idle"
    /\ test_names' = names
    /\ idx' = 1
    /\ all_passed' = TRUE
    /\ r_pc' = "loop"
    /\ UNCHANGED <<run_no, server, created, started, cleaned, results, now,
                   executed, run_raised>>
    /\ UNCHANGED <<serverVars, rconVars, toolVars>>

\* run_tests is inside a phase function.
InPhase == r_pc \in {"prep", "create", "start", "work", "stop", "parse"}

\* First step of a phase function: the accuracy and determinism phases
\* look for the baseline first, the performance phase starts the server.
FirstStep(ph) == IF ph = "performance" THEN "create" ELSE "prep"

\* for test_name in test_names: an unknown name is skipped, the end of the
\* list ends run_tests, a known name enters its phase function.
Loop ==
    /\ r_pc = "loop"
    /\ IF idx > Len(test_names)
       THEN /\ r_pc' = "returned"
            /\ UNCHANGED <<idx, run_no, server, created, started, cleaned, now, executed>>
       ELSE IF test_names[idx] \notin PhaseNames
       THEN /\ idx' = idx + 1
            /\ UNCHANGED <<r_pc, run_no, server, created, started, cleaned, now, executed>>
       ELSE /\ r_pc' = FirstStep(test_names[idx])
            /\ executed' = Append(executed, test_names[idx])
            /\ run_no' = 1
            /\ created' = 0
            /\ started' = {}
            /\ cleaned' = {}
            /\ now' = 0
            /\ UNCHANGED <<idx, server>>
    /\ UNCHANGED <<test_names, results, run_raised, all_passed>>
    /\ UNCHANGED <<serverVars, rconVars, toolVars>>

\* cleanup() is called on the controller of self.server.
CleanedUp(pair) == <<pair[1], pair[2] \cup {pair[1]}>>

\* Variant: the finally around the running server does nothing.
InnerFinally_NoCleanup(ph, pair) == pair

\* The finally around start() .. stop(): in the accuracy phase
\* `self.server.cleanup()`, in _run_single_generation also
\* `self.server = None`; the performance phase has none.
InnerFinally(ph, pair) ==
    CASE ph = "accuracy" -> CleanedUp(pair)
      [] ph = "determinism" -> <<None, CleanedUp(pair)[2]>>
      [] OTHER -> pair

\* `if self.server: self.server.cleanup(); self.server = None`
ReleaseServer(pair) ==
    IF pair[1] # None THEN <<None, CleanedUp(pair)[2]>> ELSE pair

\* The except block of the performance phase releases the server.
ExceptBlock(ph, pair) == IF ph = "performance" THEN ReleaseServer(pair) ELSE pair

\* Variant: the phase-level finally is missing.
OuterFinally_Missing(ph, pair) == pair

\* The finally of the phase function: the accuracy and the performance
\* phase have one, the determinism phase has not.
OuterFinally(ph, pair) ==
    IF ph \in {"accuracy", "performance"} THEN ReleaseServer(pair) ELSE pair

\* Steps inside the try/finally that surrounds the running server.
InServerBlock(ph, at) == ph \in {"accuracy", "determinism"} /\ at \in {"start", "work", "stop"}

\* Who catches an exception raised at a step: the except Exception of the
\* phase function, or, for the code of the performance phase that follows
\* its try statement, the except Exception of run_tests.
Catch(ph, at) == IF ph = "performance" /\ at = "parse" THEN "run_tests" ELSE "phase"

\* self.server and the cleaned controllers once an exception raised at a
\* step has left the phase function or has been turned into its result.
AfterException(ph, at, pair) ==
    LET inner == IF InServerBlock(ph, at) THEN InnerFinally(ph, pair) ELSE pair
        handled == IF Catch(ph, at) = "phase" THEN ExceptBlock(ph, inner) ELSE inner
    IN  IF at = "parse" /\ ph = "performance" THEN handled
        ELSE OuterFinally(ph, handled)

\* create_error_result: status "FAIL", the message in `error`.
create_error_result(name, cause, duration) ==
    [name |-> name, status |-> "FAIL", duration |-> duration, cause |-> cause]

\* A result made from the statistics of a completed phase.
create_result(name, verdict, duration) ==
    [name |-> name, status |-> verdict, duration |-> duration, cause |-> "none"]

\* duration_ms in the except block of run_tests.
CrashDuration == 0

\* Variant: run_tests lets the exception through.
RunTestsCatches_Nothing(exc) == FALSE

\* run_tests: `except Exception` around the call of the phase function.
RunTestsCatches(exc) == TRUE

\* run_tests: add_result and the step to the next name.
AddResult(rec) ==
    /\ results' = Append(results, rec)
    /\ all_passed' = (all_passed /\ rec.status = "PASS")
    /\ idx' = idx + 1
    /\ r_pc' = "loop"
    /\ UNCHANGED run_raised

SetServer(pair) ==
    /\ server' = pair[1]
    /\ cleaned' = pair[2]

\* A step of the current phase raises at time t.
Raise(at, t) ==
    LET ph == test_names[idx] IN
    /\ SetServer(AfterException(ph, at, <<server, cleaned>>))
    /\ IF Catch(ph, at) = "phase"
       THEN AddResult(create_error_result(ph, "exception", t))
       ELSE IF RunTestsCatches("Exception")
       THEN AddResult(create_error_result(ph, "exception", CrashDuration))
       ELSE /\ run_raised' = "Exception"
            /\ r_pc' = "returned"
            /\ UNCHANGED <<results, all_passed, idx>>

\* Baseline lookup and chunk calculation.
Prep ==
    /\ r_pc = "prep"
    /\ now' = now + 1
    /\ \/ /\ r_pc' = "create"
          /\ UNCHANGED <<server, cleaned, results, all_passed, idx, run_raised>>
       \/ Raise("prep", now + 1)
    /\ UNCHANGED <<test_names, run_no, created, started, executed>>
    /\ UNCHANGED <<serverVars, rconVars, toolVars>>

\* self.server = ServerManager(); the constructor raises when run.sh is
\* missing, and self.server keeps its old value.
Create ==
    /\ r_pc = "create"
    /\ now' = now + 1
    /\ \/ /\ r_pc' = "start"
          /\ server' = created + 1
          /\ created' = created + 1
          /\ UNCHANGED <<cleaned, results, all_passed, idx, run_raised>>
       \/ /\ Raise("create", now + 1)
          /\ UNCHANGED created
    /\ UNCHANGED <<test_names, run_no, started, executed>>
    /\ UNCHANGED <<serverVars, rconVars, toolVars>>

\* self.server.start()
StartServer ==
    /\ r_pc = "start"
    /\ now' = now + 1
    /\ started' = started \cup {server}
    /\ \/ /\ r_pc' = "work"
          /\ UNCHANGED <<server, cleaned, results, all_passed, idx, run_raised>>
       \/ Raise("start", now + 1)
    /\ UNCHANGED <<test_names, run_no, created, executed>>
    /\ UNCHANGED <<serverVars, rconVars, toolVars>>

\* File copies, get_rcon() and the channel commands of the phase.
Work ==
    /\ r_pc = "work"
    /\ now' = now + 1
    /\ \/ /\ r_pc' = "stop"
          /\ UNCHANGED <<server, cleaned, results, all_passed, idx, run_raised>>
       \/ Raise("work", now + 1)
    /\ UNCHANGED <<test_names, run_no, created, started, executed>>
    /\ UNCHANGED <<serverVars, rconVars, toolVars>>

\* self.server.stop(), then the finally that follows it: the inner one of
\* the accuracy and determinism phases, the phase-level one of the
\* performance phase.
StopServer ==
    /\ r_pc = "stop"
    /\ now' = now + 1
    /\ LET ph == test_names[idx] IN
       SetServer(IF ph = "performance"
                 THEN OuterFinally(ph, <<server, cleaned>>)
                 ELSE InnerFinally(ph, <<server, cleaned>>))
    /\ r_pc' = "parse"
    /\ UNCHANGED <<test_names, idx, run_no, created, started, results, executed,
                   run_raised, all_passed>>
    /\ UNCHANGED <<serverVars, rconVars, toolVars>>

\* Reading the results out of the server log and building the result; the
\* determinism phase does it once per generation and compares at the end.
Parse ==
    /\ r_pc = "parse"
    /\ now' = now + 1
    /\ LET ph == test_names[idx] IN
       \/ /\ Raise("parse", now + 1)
          /\ UNCHANGED run_no
       \/ /\ ph = "performance"                     \* `if not stats`
          /\ AddResult(create_error_result(ph, "no_stats", now + 1))
          /\ UNCHANGED <<server, cleaned, run_no>>
       \/ /\ ph = "determinism"
          /\ run_no = 1
          /\ run_no' = 2
          /\ r_pc' = "create"
          /\ UNCHANGED <<server, cleaned, results, all_passed, idx, run_raised>>
       \/ /\ ph = "determinism" => run_no = 2
          /\ \E verdict \in {"PASS", "FAIL"} :
               AddResult(create_result(ph, verdict, now + 1))
          /\ SetServer(IF ph = "accuracy"
                       THEN OuterFinally(ph, <<server, cleaned>>)
                       ELSE <<server, cleaned>>)
          /\ UNCHANGED run_no
    /\ UNCHANGED <<test_names, created, started, executed>>
    /\ UNCHANGED <<serverVars, rconVars, toolVars>>

NextRunner ==
    \/ \E names \in TestLists : RunTests(names)
    \/ Loop
    \/ Prep
    \/ Create
    \/ StartServer
    \/ Work
    \/ StopServer
    \/ Parse

SpecRunner == InitRunner /\ [][NextRunner]_vars

Next ==
    \/ \E p \in Pids : ProcExit(p)
    \/ \E pt \in PortSet : HiddenRelease(pt)
    \/ \E p \in Pids : ServerLogsDone(p)
    \/ \E t \in StartTimeouts : Start(t)
    \/ \E t \in ZombieTimeouts : CleanupZombies(t)
    \/ ZScan
    \/ ZKillCheck
    \/ ZKillTerm
    \/ ZKillPoll
    \/ ZKillKill
    \/ ZWaitPorts
    \/ DeleteWorld
    \/ Launch
    \/ Phase1Poll
    \/ Phase2Probe
    \/ Stop
    \/ Cleanup
    \/ StopSave
    \/ StopCmd
    \/ StopWait
    \/ ForceTerm
    \/ ForceKill
    \/ GetRcon

Spec == Init /\ [][Next]_vars

\* ------------------------------------- TestRunner._hash_inspection_results
\* (scripts/test_harness/runner.py).  The determinism phase hashes the
\* inspection results of its two generations and compares the digests.
MaxRecords == 3

Coords == {<<0, 64, 1>>, <<1, 64, 0>>}
Biomes == {"plains", "desert"}
InspectRecords == [x : {c[1] : c \in Coords}, y : {c[2] : c \in Coords},
                   z : {c[3] : c \in Coords}, actual_biome : Biomes]
BiomeInspectResults == {r \in InspectRecords : <<r.x, r.y, r.z>> \in Coords}
ResultLists == UNION {[1..n -> BiomeInspectResults] : n \in 0..MaxRecords}

InitHash ==
    /\ ServerQuiet
    /\ RconIdle
    /\ RunnerIdle
    /\ ToolsIdle

\* key=lambda r: (r.x, r.y, r.z): tuples compare lexicographically.
KeyLess(a, b) ==
    \/ a.x < b.x
    \/ a.x = b.x /\ a.y < b.y
    \/ a.x = b.x /\ a.y = b.y /\ a.z < b.z

\* sorted() is stable: a record goes behind every record whose key is not
\* greater than its own, so records with equal keys keep the input order.
InsertStable(s, r) ==
    LET k == Cardinality({i \in DOMAIN s : ~KeyLess(r, s[i])})
    IN  SubSeq(s, 1, k) \o <<r>> \o SubSeq(s, k + 1, Len(s))

RECURSIVE SortedResults(_)
SortedResults(rs) ==
    IF rs = <<>> THEN <<>>
    ELSE InsertStable(SortedResults(SubSeq(rs, 1, Len(rs) - 1)), rs[Len(rs)])

\* Variant: the label is left out of the hashed representation.
JsonEntry_NoLabel(r) == <<"x", r.x, "y", r.y, "z", r.z>>

\* One dict of `data` as json.dumps(sort_keys=True) writes it: the keys in
\* alphabetical order, each followed by its value.
JsonEntry(r) == <<"actual_biome", r.actual_biome, "x", r.x, "y", r.y, "z", r.z>>

\* json.dumps(data, sort_keys=True, separators=(",", ":"))
JsonStr(data) == [i \in DOMAIN data |-> JsonEntry(data[i])]

\* hashlib.sha256(..).hexdigest(), taken as injective on its input.
Sha256Hex(str) == <<"sha256", str>>

hash_inspection_results(rs) == Sha256Hex(JsonStr(SortedResults(rs)))

\* run1_results = _run_single_generation(.., "run1") and its hash.
HashRun1(rs) ==
    /\ h_pc = "idle"
    /\ run1_results' = rs
    /\ run1_hash' = hash_inspection_results(rs)
    /\ h_pc' = "run1"
    /\ UNCHANGED <<run2_results, run2_hash, match>>
    /\ UNCHANGED <<serverVars, rconVars, runnerVars, sessVars, chunkVars, perfVars, mainVars>>

\* run2_results, its hash, and `match = run1_hash == run2_hash`.
HashRun2(rs) ==
    /\ h_pc = "run1"
    /\ run2_results' = rs
    /\ run2_hash' = hash_inspection_results(rs)
    /\ match' = (run1_hash = hash_inspection_results(rs))
    /\ h_pc' = "compared"
    /\ UNCHANGED <<run1_results, run1_hash>>
    /\ UNCHANGED <<serverVars, rconVars, runnerVars, sessVars, chunkVars, perfVars, mainVars>>

NextHash ==
    \/ \E rs \in ResultLists : HashRun1(rs)
    \/ \E rs \in ResultLists : HashRun2(rs)

SpecHash == InitHash /\ [][NextHash]_vars

\* ----------------------------------------- ChunkCalculator.calculate_chunks
\* (scripts/test_harness/chunks.py)
MaxCoordinates == 2
MaxBuffer == 2

BlockValues == {-17, -1, 0, 16}
BaselineCoordinates == [x : BlockValues, z : BlockValues]
CoordinateLists == UNION {[1..n -> BaselineCoordinates] : n \in 0..MaxCoordinates}
BufferSizes == 0..MaxBuffer

InitChunks ==
    /\ ServerQuiet
    /\ RconIdle
    /\ RunnerIdle
    /\ ToolsIdle

\* `v >> 4` on a Python int: the floor of v / 16, also for negative v.
ShiftRight4(v) == IF v >= 0 THEN v \div 16 ELSE -((-v + 15) \div 16)

\* range(-buffer_size, buffer_size + 1)
BufferRange(b) == (-b)..b

\* Variant: the buffered square replaces what was collected so far.
AddCoordinate_ForgetsEarlier(acc, coord, b) ==
    {<<ShiftRight4(coord.x) + dx, ShiftRight4(coord.z) + dz>> :
        dx \in BufferRange(b), dz \in BufferRange(b)}

\* Body of the loop over self.coordinates: the base chunk, and for a
\* positive buffer size the square of chunks around it.
AddCoordinate(acc, coord, b) ==
    LET chunk_x == ShiftRight4(coord.x)
        chunk_z == ShiftRight4(coord.z)
    IN  acc \cup {<<chunk_x, chunk_z>>}
            \cup (IF b > 0
                  THEN {<<chunk_x + dx, chunk_z + dz>> :
                            dx \in BufferRange(b), dz \in BufferRange(b)}
                  ELSE {})

RECURSIVE ChunksOf(_, _)
ChunksOf(cs, b) ==
    IF cs = <<>> THEN {}
    ELSE AddCoordinate(ChunksOf(SubSeq(cs, 1, Len(cs) - 1), b), cs[Len(cs)], b)

\* load_baseline: the coordinates of the CSV file in file order.
LoadBaseline(cs) ==
    /\ c_pc = "new"
    /\ coordinates' = cs
    /\ c_pc' = "loaded"
    /\ UNCHANGED <<buffer_size, chunks>>
    /\ UNCHANGED <<serverVars, rconVars, runnerVars, sessVars, hashVars, perfVars, mainVars>>

\* calculate_chunks(buffer_size): raises ChunkCalculationError when no
\* coordinates are loaded, before it touches any field.
CalculateChunks(b) ==
    /\ c_pc \in {"loaded", "calculated"}
    /\ IF coordinates = <<>>
       THEN /\ c_pc' = "ChunkCalculationError"
            /\ UNCHANGED <<buffer_size, chunks>>
       ELSE /\ buffer_size' = b
            /\ chunks' = ChunksOf(coordinates, b)
            /\ c_pc' = "calculated"
    /\ UNCHANGED coordinates
    /\ UNCHANGED <<serverVars, rconVars, runnerVars, sessVars, hashVars, perfVars, mainVars>>

NextChunks ==
    \/ \E cs \in CoordinateLists : LoadBaseline(cs)
    \/ \E b \in BufferSizes : CalculateChunks(b)

SpecChunks == InitChunks /\ [][NextChunks]_vars

\* ---------------------------------------- TestRunner._run_performance_test
\* (scripts/test_harness/runner.py, scripts/test_harness/profiling.py).
\* The phase in its own steps, with the AsyncProfiler it drives.
Thresholds == {0, 30, 50}
P99Values == {30, 40, 50}
StatsRecords ==
    {NoStats} \cup [found : {TRUE}, has_p99 : {TRUE}, p99_ms : P99Values]
              \cup {[found |-> TRUE, has_p99 |-> FALSE, p99_ms |-> 0]}
StopOutcomes == {"file", "no_file", "TimeoutExpired", "Exception"}

InitPerf ==
    /\ ServerQuiet
    /\ RconIdle
    /\ RunnerIdle
    /\ ToolsIdle

\* Variant: the counters are not reset after the warmup generation.
Commands_NoResetAfterWarmup(w) ==
    <<"get_rcon", "profile_reset">>
      \o (IF w THEN <<"generate_warmup">> ELSE <<>>)
      \o <<"generate", "profile_stats">>

\* The calls made on the command channel between the profiler start and
\* the profiler stop: get_rcon, profile_reset, the warmup generation and a
\* second profile_reset when warmup_chunks > 0, the generation, profile_stats.
Commands(w) ==
    <<"get_rcon", "profile_reset">>
      \o (IF w THEN <<"generate_warmup", "profile_reset">> ELSE <<>>)
      \o <<"generate", "profile_stats">>

\* AsyncProfiler.stop_recording: without a PID or a recording it returns
\* None at once; otherwise `asprof stop` runs, and only a run that returns
\* clears _recording.  The result is <<_recording, runs, outcome, path>>.
StopRecording(avail, pid, rec, runs, outcome) ==
    IF ~avail \/ pid = None \/ ~rec
    THEN <<rec, runs, "none", "None">>
    ELSE IF outcome \in {"TimeoutExpired", "Exception"}
    THEN <<rec, runs + 1, outcome, "None">>
    ELSE <<FALSE, runs + 1, outcome, IF outcome = "file" THEN "path" ELSE "None">>

\* AsyncProfiler.cleanup: stop a recording, then forget PID and recording.
\* The result is <<_pid, _recording, runs, outcome>>.
ProfilerCleanup(avail, pid, rec, runs, outcome) ==
    LET st == IF rec /\ pid # None
              THEN StopRecording(avail, pid, rec, runs, outcome)
              ELSE <<rec, runs, "none", "None">>
    IN  <<None, FALSE, st[2], st[3]>>

\* Variant: the except block leaves the profiler alone.
CleanupOnException_Never(avail) == FALSE

\* except block: `if profiler.is_available(): profiler.cleanup()`
CleanupOnException(avail) == avail

\* Variant: a p99 equal to the threshold passes.
Passed_AtThreshold(p99, thr) == p99 <= thr

\* `passed = p99_ms < config.p99_threshold_ms`
Passed(p99, thr) == p99 < thr

\* stats.get("p99_ms", 0)
P99Of(st) == IF st.has_p99 THEN st.p99_ms ELSE 0

\* create_performance_result: the status of the PerformanceTestResult,
\* which create_perf_result copies into the TestResult.
create_performance_result(st, thr) ==
    IF Passed(P99Of(st), thr) THEN "PASS" ELSE "FAIL"

\* if self.server: self.server.cleanup(); self.server = None
ReleasePerfServer ==
    /\ perf_cleaned' = (perf_cleaned \/ perf_server # None)
    /\ perf_server' = None

\* An exception inside the try block: the except block, then the finally.
PerfExcept ==
    /\ \E outcome \in StopOutcomes :
         LET cl == IF CleanupOnException(p_available)
                   THEN ProfilerCleanup(p_available, profiler_pid, recording,
                                        stop_runs, outcome)
                   ELSE <<profiler_pid, recording, stop_runs, "none">>
         IN  /\ profiler_pid' = cl[1]
             /\ recording' = cl[2]
             /\ stop_runs' = cl[3]
             /\ stop_result' = (IF cl[4] = "none" THEN stop_result ELSE cl[4])
    /\ ReleasePerfServer
    /\ p_status' = "FAIL"
    /\ p_error' = "exception"
    /\ p_pc' = "done"
    /\ p_cmd' = 0
    /\ UNCHANGED <<p_available, warmup, p99_threshold, rec_started,
                   flamegraph_path, stats>>

\* _run_performance_test(): entry, up to the try statement.
RunPerformanceTest(thr, avail, w) ==
    /\ p_pc = "idle"
    /\ p99_threshold' = thr
    /\ p_available' = avail
    /\ warmup' = w
    /\ p_pc' = "create"
    /\ UNCHANGED <<profiler_pid, recording, rec_started, stop_runs, stop_result,
                   flamegraph_path, perf_server, perf_cleaned, p_cmd, stats,
                   p_status, p_error>>
    /\ UNCHANGED <<serverVars, rconVars, runnerVars, sessVars, hashVars, chunkVars, mainVars>>

\* self.server = ServerManager()
PerfCreate ==
    /\ p_pc = "create"
    /\ \/ /\ perf_server' = 1
          /\ p_pc' = "start"
          /\ UNCHANGED <<p_available, warmup, p99_threshold, profVars,
                         perf_cleaned, p_cmd, stats, p_status, p_error>>
       \/ PerfExcept
    /\ UNCHANGED <<serverVars, rconVars, runnerVars, sessVars, hashVars, chunkVars, mainVars>>

\* self.server.start()
PerfStart ==
    /\ p_pc = "start"
    /\ \/ /\ p_pc' = IF p_available THEN "attach" ELSE "commands"
          /\ p_cmd' = IF p_available THEN 0 ELSE 1
          /\ UNCHANGED <<p_available, warmup, p99_threshold, profVars,
                         perf_server, perf_cleaned, stats, p_status, p_error>>
       \/ PerfExcept
    /\ UNCHANGED <<serverVars, rconVars, runnerVars, sessVars, hashVars, chunkVars, mainVars>>

\* profiler.attach(pid) sets _pid; profiler.start_recording(..) sets
\* _recording when `asprof start` went through, returns False otherwise,
\* and raises when the output directory cannot be made.
PerfAttach ==
    /\ p_pc = "attach"
    /\ \/ /\ \E started_ok \in BOOLEAN :
               /\ recording' = started_ok
               /\ rec_started' = started_ok
          /\ profiler_pid' = 1
          /\ p_pc' = "commands"
          /\ p_cmd' = 1
          /\ UNCHANGED <<p_available, warmup, p99_threshold, stop_runs,
                         stop_result, flamegraph_path, perf_server,
                         perf_cleaned, stats, p_status, p_error>>
       \/ PerfExcept
    /\ UNCHANGED <<serverVars, rconVars, runnerVars, sessVars, hashVars, chunkVars, mainVars>>

\* One call on the command channel; each of them may raise.
PerfCommand ==
    /\ p_pc = "commands"
    /\ \/ /\ IF p_cmd < Len(Commands(warmup))
             THEN p_cmd' = p_cmd + 1 /\ UNCHANGED p_pc
             ELSE p_cmd' = 0 /\ p_pc' = "stop_recording"
          /\ UNCHANGED <<p_available, warmup, p99_threshold, profVars,
                         perf_server, perf_cleaned, stats, p_status, p_error>>
       \/ PerfExcept
    /\ UNCHANGED <<serverVars, rconVars, runnerVars, sessVars, hashVars, chunkVars, mainVars>>

\* `if profiler.is_available(): flamegraph_path = profiler.stop_recording()`
PerfStopRecording ==
    /\ p_pc = "stop_recording"
    /\ \E outcome \in StopOutcomes :
         LET st == StopRecording(p_available, profiler_pid, recording,
                                 stop_runs, outcome)
         IN  /\ recording' = st[1]
             /\ stop_runs' = st[2]
             /\ stop_result' = st[3]
             /\ flamegraph_path' = st[4]
    /\ p_pc' = "stop_server"
    /\ UNCHANGED <<p_available, warmup, p99_threshold, profiler_pid, rec_started,
                   perf_server, perf_cleaned, p_cmd, stats, p_status, p_error>>
    /\ UNCHANGED <<serverVars, rconVars, runnerVars, sessVars, hashVars, chunkVars, mainVars>>

\* self.server.stop(), then the finally of the phase.
PerfStopServer ==
    /\ p_pc = "stop_server"
    /\ \/ /\ ReleasePerfServer
          /\ p_pc' = "tail"
          /\ UNCHANGED <<p_available, warmup, p99_threshold, profVars, p_cmd,
                         stats, p_status, p_error>>
       \/ PerfExcept
    /\ UNCHANGED <<serverVars, rconVars, runnerVars, sessVars, hashVars, chunkVars, mainVars>>

\* After the try statement: read the log, pick the profile_stats result,
\* build the result.  An exception here reaches run_tests, which records
\* an error result.
PerfTail ==
    /\ p_pc = "tail"
    /\ \/ /\ p_status' = "FAIL"
          /\ p_error' = "crashed"
          /\ UNCHANGED stats
       \/ \E st \in StatsRecords :
            /\ stats' = st
            /\ IF ~st.found
               THEN p_status' = "FAIL" /\ p_error' = "no_stats"
               ELSE /\ p_status' = create_performance_result(st, p99_threshold)
                    /\ UNCHANGED p_error
    /\ p_pc' = "done"
    /\ UNCHANGED <<p_available, warmup, p99_threshold, profVars, perf_server,
                   perf_cleaned, p_cmd>>
    /\ UNCHANGED <<serverVars, rconVars, runnerVars, sessVars, hashVars, chunkVars, mainVars>>

NextPerf ==
    \/ \E thr \in Thresholds, avail \in BOOLEAN, w \in BOOLEAN :
         RunPerformanceTest(thr, avail, w)
    \/ PerfCreate
    \/ PerfStart
    \/ PerfAttach
    \/ PerfCommand
    \/ PerfStopRecording
    \/ PerfStopServer
    \/ PerfTail

SpecPerf == InitPerf /\ [][NextPerf]_vars

\* ------------------------------------------------------------------ main()
\* (scripts/test_harness/__main__.py).  main() builds the TestRunner, runs
\* the phases of the command through run_tests and turns the outcome into
\* the exit code of the process.
MainCommands == {"all", "accuracy", "determinism", "performance"}
Escapes == {"Exception", "KeyboardInterrupt"}

InitMain ==
    /\ ServerQuiet
    /\ RconIdle
    /\ RunnerIdle
    /\ ToolsIdle

\* run_all, run_accuracy, run_determinism and the performance branch.
NamesOf(cmd) ==
    CASE cmd = "all" -> <<"accuracy", "determinism">>
      [] cmd = "accuracy" -> <<"accuracy">>
      [] cmd = "determinism" -> <<"determinism">>
      [] OTHER -> <<"performance">>

\* Variant: a failed phase is reported like a harness error.
ExitCode_FailureAsHarnessError(exc, success) ==
    IF exc = "KeyboardInterrupt" THEN 130
    ELSE IF exc = "Exception" THEN 2
    ELSE IF success THEN 0 ELSE 2

\* `return 0 if success else 1`, `except KeyboardInterrupt: return 130`,
\* `except Exception: return 2`.
ExitCode(exc, success) ==
    IF exc = "KeyboardInterrupt" THEN 130
    ELSE IF exc = "Exception" THEN 2
    ELSE IF success THEN 0 ELSE 1

\* An exception that leaves the try block of main().
MainCatches(exc, where) ==
    /\ m_raised' = exc
    /\ m_where' = where
    /\ exit_code' = ExitCode(exc, FALSE)
    /\ m_pc' = "exited"

\* main(): arguments, TestRunner(..), the choice of the phases and the
\* entry of run_tests up to its loop (sync_mod_jar, report.start_run).
Main(cmd) ==
    /\ m_pc = "idle"
    /\ r_pc = "idle"
    /\ command' = cmd
    /\ \/ /\ m_pc' = "running"
          /\ test_names' = NamesOf(cmd)
          /\ idx' = 1
          /\ all_passed' = TRUE
          /\ r_pc' = "loop"
          /\ UNCHANGED <<m_raised, m_where, exit_code>>
       \/ /\ \E exc \in Escapes : MainCatches(exc, "setup")
          /\ UNCHANGED <<test_names, idx, all_passed, r_pc>>
    /\ UNCHANGED <<run_no, server, created, started, cleaned, results, now,
                   executed, run_raised>>
    /\ UNCHANGED <<serverVars, rconVars, sessVars, hashVars, chunkVars, perfVars>>

\* self.server and the cleaned controllers once a KeyboardInterrupt raised
\* at a step has left the phase function: the finally blocks run, the
\* `except Exception` blocks do not.
AfterInterrupt(ph, at, pair) ==
    LET inner == IF InServerBlock(ph, at) THEN InnerFinally(ph, pair) ELSE pair
    IN  IF at = "parse" /\ ph = "performance" THEN inner
        ELSE OuterFinally(ph, inner)

\* The user interrupts a phase: neither the phase function nor run_tests
\* catches KeyboardInterrupt, main() does.
Interrupt ==
    /\ m_pc = "running"
    /\ InPhase
    /\ SetServer(AfterInterrupt(test_names[idx], r_pc, <<server, cleaned>>))
    /\ started' = IF r_pc = "start" THEN started \cup {server} ELSE started
    /\ run_raised' = "KeyboardInterrupt"
    /\ r_pc' = "returned"
    /\ MainCatches("KeyboardInterrupt", "phase")
    /\ UNCHANGED <<test_names, idx, run_no, created, results, now, executed,
                   all_passed, command>>
    /\ UNCHANGED <<serverVars, rconVars, sessVars, hashVars, chunkVars, perfVars>>

\* run_tests after its loop (end_run, summary, report.write) and the
\* return of main().
MainReturn ==
    /\ m_pc = "running"
    /\ r_pc = "returned"
    /\ IF run_raised # "none"
       THEN MainCatches(run_raised, "phase")
       ELSE \/ /\ exit_code' = ExitCode("none", all_passed)
               /\ m_pc' = "exited"
               /\ UNCHANGED <<m_raised, m_where>>
            \/ \E exc \in Escapes : MainCatches(exc, "report")
    /\ UNCHANGED command
    /\ UNCHANGED <<serverVars, rconVars, runnerVars, sessVars, hashVars, chunkVars, perfVars>>

NextMain ==
    \/ \E cmd \in MainCommands : Main(cmd)
    \/ Loop
    \/ Prep
    \/ Create
    \/ StartServer
    \/ Work
    \/ StopServer
    \/ Parse
    \/ Interrupt
    \/ MainReturn

SpecMain == InitMain /\ [][NextMain]_vars

\* ------------------------------------------- the server sessions of a phase
\* (scripts/test_harness/runner.py, server.py).  A phase runs one server
\* session (accuracy, performance) or two (determinism).  Every session
\* writes to the same server_stdout.log; the phase reads it back after the
\* session and builds its result from what it finds.
MaxGrid == 11

\* `for diff in differences[:10]`
LogLimit == 10

SessionPhases == {"accuracy", "determinism", "performance"}

\* The calls made inside the try block around the running server, in the
\* order of the code.  For the performance phase "profile" stands for the
\* profiler and channel calls between start() and stop().
SessionSteps(ph) ==
    IF ph = "performance" THEN <<"start", "profile", "stop">>
    ELSE <<"start", "copy_chunk_list", "copy_baseline", "get_rcon",
           "forceload_chunks", "tick_sprint", "settle", "batch_inspect", "stop">>

\* time.sleep(GENERATION_SETTLE) is the one step that does not raise.
MayRaise(step) == step # "settle"

\* The step at which the process writes the records the phase reads back.
Emits(ph, step) ==
    IF ph = "performance" THEN step = "profile" ELSE step = "batch_inspect"

\* The kind of [TEST_RESULT] line a phase picks out of the log:
\* parse_batch_inspect_results or parse_profile_stats.
KindOf(ph) == IF ph = "performance" THEN "profile_stats" ELSE "batch_inspect"

Rec(x, b) == [x |-> x, y |-> 64, z |-> 0, actual_biome |-> b]

\* MaxGrid records on distinct coordinates, written in descending order.
Grid(b) == [i \in 1..MaxGrid |-> Rec(MaxGrid + 1 - i, b)]

\* What the process may write during one session.
SessionOutputs ==
    {<<>>,
     <<Rec(0, "plains")>>,
     <<Rec(0, "desert")>>,
     <<Rec(1, "plains"), Rec(0, "plains")>>,
     <<Rec(0, "plains"), Rec(0, "desert")>>,
     Grid("plains"),
     Grid("desert")}

\* Lines of the log: the session that wrote them, their kind, the record.
LogLines(sess, kind, out) ==
    [i \in DOMAIN out |-> [sess |-> sess, kind |-> kind, rec |-> out[i]]]

\* Lines an earlier phase left in the log: session 0.
StaleLog ==
    LogLines(0, "batch_inspect", <<Rec(0, "plains")>>)
      \o LogLines(0, "profile_stats", <<Rec(0, "plains")>>)

\* Variant: the log is opened for appending.
OpenLog_Append(log) == log

\* open(self.server_log_file, "w", encoding="utf-8") empties the file.
OpenLog(log) == <<>>

\* extract_test_results and the parser of the phase: the lines of the
\* phase's kind, in file order.
RECURSIVE ParsedLines(_, _)
ParsedLines(log, kind) ==
    IF log = <<>> THEN <<>>
    ELSE LET rest == ParsedLines(SubSeq(log, 1, Len(log) - 1), kind)
             l == log[Len(log)]
         IN  IF l.kind = kind THEN Append(rest, l) ELSE rest

RecordsOf(lines) == [i \in DOMAIN lines |-> lines[i].rec]

\* Variant: a step that raised is followed by the next step.
StepDecision_IgnoresFailure(raises, k, n) ==
    IF k = n THEN "finally" ELSE "next"

\* After step k of n inside the try block: an exception leaves the block
\* through its finally, the last step falls into the finally, any other
\* step is followed by the next one.
StepDecision(raises, k, n) ==
    IF raises THEN "finally_failed"
    ELSE IF k = n THEN "finally" ELSE "next"

\* Variant: the log is parsed whether or not the session failed.
AfterFinally_ParsesAnyway(failed) == "parse"

\* After the finally of the session: a pending exception goes on to the
\* except block of the phase, otherwise the log is parsed.
AfterFinally(failed) == IF failed THEN "except" ELSE "parse"

\* Variant: the determinism phase passes whatever the comparison says.
create_determinism_result_AlwaysPass(m) == "PASS"

\* create_determinism_result: status="PASS" if match else "FAIL".
create_determinism_result(m) == IF m THEN "PASS" ELSE "FAIL"

CoordOf(r) == <<r.x, r.y, r.z>>

\* sorted() on (x, y, z) tuples.
CoordLess(a, b) ==
    \/ a[1] < b[1]
    \/ a[1] = b[1] /\ a[2] < b[2]
    \/ a[1] = b[1] /\ a[2] = b[2] /\ a[3] < b[3]

RECURSIVE SortedCoords(_)
SortedCoords(S) ==
    IF S = {} THEN <<>>
    ELSE LET m == CHOOSE c \in S : \A d \in S : d = c \/ CoordLess(c, d)
         IN  <<m>> \o SortedCoords(S \ {m})

\* {(r.x, r.y, r.z): r for r in run}.get(coord): the last record of the
\* run at the coordinate, None when there is none.
MapGet(run, c) ==
    LET at == {i \in DOMAIN run : CoordOf(run[i]) = c}
    IN  IF at = {} THEN "None"
        ELSE run[CHOOSE i \in at : \A j \in at : j <= i].actual_biome

\* Variant: a coordinate missing in one run is not reported.
DiffEntry_SkipsMissing(c, b1, b2) ==
    IF b1 # "None" /\ b2 # "None" /\ b1 # b2
    THEN <<[coord |-> c, run1 |-> b1, run2 |-> b2]>>
    ELSE <<>>

\* The if/elif chain of _log_result_differences for one coordinate.
DiffEntry(c, b1, b2) ==
    IF b1 = "None" /\ b2 # "None"
    THEN <<[coord |-> c, run1 |-> "missing", run2 |-> b2]>>
    ELSE IF b2 = "None" /\ b1 # "None"
    THEN <<[coord |-> c, run1 |-> b1, run2 |-> "missing"]>>
    ELSE IF b1 # "None" /\ b2 # "None" /\ b1 # b2
    THEN <<[coord |-> c, run1 |-> b1, run2 |-> b2]>>
    ELSE <<>>

RECURSIVE DiffsOver(_, _, _)
DiffsOver(cs, run1, run2) ==
    IF cs = <<>> THEN <<>>
    ELSE DiffEntry(Head(cs), MapGet(run1, Head(cs)), MapGet(run2, Head(cs)))
           \o DiffsOver(Tail(cs), run1, run2)

\* `differences` of _log_result_differences.
Differences(run1, run2) ==
    DiffsOver(SortedCoords({CoordOf(run1[i]) : i \in DOMAIN run1}
                             \cup {CoordOf(run2[i]) : i \in DOMAIN run2}),
              run1, run2)

\* differences[:10]
Shown(diffs) ==
    SubSeq(diffs, 1, IF Len(diffs) < LogLimit THEN Len(diffs) ELSE LogLimit)

InitSession ==
    /\ ServerQuiet
    /\ RconIdle
    /\ RunnerIdle
    /\ ToolsIdle

\* An earlier phase has left its lines in the server log.
EarlierPhase ==
    /\ s_pc = "idle"
    /\ s_log = <<>>
    /\ s_log' = StaleLog
    /\ UNCHANGED <<s_pc, s_phase, s_sess, s_step, s_failed, s_trace, s_parsed,
                   s_hashes, s_match, s_found, s_shown, s_status, s_error, s_cleaned>>
    /\ UNCHANGED <<serverVars, rconVars, runnerVars, hashVars, chunkVars,
                   perfVars, mainVars>>

\* The except block of the phase: create_error_result.  The phase-level
\* finally cleans up a server that self.server still names.
SessExcept ==
    /\ s_status' = "FAIL"
    /\ s_error' = "exception"
    /\ s_pc' = "done"

\* Entry of a phase function.  The accuracy and determinism phases look
\* for the baseline and calculate the chunks first, which may raise.
SessBegin(ph) ==
    /\ s_pc = "idle"
    /\ s_phase' = ph
    /\ \/ /\ s_pc' = "create"
          /\ UNCHANGED <<s_status, s_error>>
       \/ /\ ph # "performance"
          /\ SessExcept
    /\ UNCHANGED <<s_sess, s_step, s_failed, s_trace, s_log, s_parsed, s_hashes,
                   s_match, s_found, s_shown, s_cleaned>>
    /\ UNCHANGED <<serverVars, rconVars, runnerVars, hashVars, chunkVars,
                   perfVars, mainVars>>

\* self.server = ServerManager(): a new session, or the constructor raises.
SessCreate ==
    /\ s_pc = "create"
    /\ \/ /\ s_sess' = s_sess + 1
          /\ s_step' = 0
          /\ s_failed' = FALSE
          /\ s_pc' = "step"
          /\ UNCHANGED <<s_status, s_error>>
       \/ /\ SessExcept
          /\ UNCHANGED <<s_sess, s_step, s_failed>>
    /\ UNCHANGED <<s_phase, s_trace, s_log, s_parsed, s_hashes, s_match,
                   s_found, s_shown, s_cleaned>>
    /\ UNCHANGED <<serverVars, rconVars, runnerVars, hashVars, chunkVars,
                   perfVars, mainVars>>

\* The log after a step.  start() opens the log just before it launches the
\* process, so a start that fails earlier leaves the file alone; the
\* process writes its records while the inspecting step runs.
LogAfter(step, launched, out) ==
    IF step = "start"
    THEN IF launched THEN OpenLog(s_log) ELSE s_log
    ELSE IF Emits(s_phase, step)
    THEN s_log \o LogLines(s_sess, KindOf(s_phase), out)
    ELSE s_log

\* One call inside the try block: it returns or it raises.
SessStep ==
    /\ s_pc = "step"
    /\ LET steps == SessionSteps(s_phase)
           step == steps[s_step + 1]
       IN  \E raises \in {b \in BOOLEAN : b => MayRaise(step)},
              launched \in BOOLEAN, out \in SessionOutputs :
             /\ step = "start" => (~raises => launched)
             /\ step # "start" => launched
             /\ ~Emits(s_phase, step) => out = <<>>
             /\ s_log' = LogAfter(step, launched, out)
             /\ LET d == StepDecision(raises, s_step + 1, Len(steps)) IN
                /\ s_trace' = IF raises THEN s_trace
                              ELSE Append(s_trace, <<s_sess, step>>)
                /\ s_step' = IF raises /\ d # "next" THEN s_step ELSE s_step + 1
                /\ s_failed' = (d = "finally_failed")
                /\ s_pc' = IF d = "next" THEN "step" ELSE "finally"
    /\ UNCHANGED <<s_phase, s_sess, s_parsed, s_hashes, s_match, s_found,
                   s_shown, s_status, s_error, s_cleaned>>
    /\ UNCHANGED <<serverVars, rconVars, runnerVars, hashVars, chunkVars,
                   perfVars, mainVars>>

\* The finally of the session: self.server.cleanup().  In the performance
\* phase the except block and the phase-level finally do the same.
SessFinally ==
    /\ s_pc = "finally"
    /\ s_cleaned' = s_cleaned \cup {s_sess}
    /\ s_trace' = Append(s_trace, <<s_sess, "cleanup">>)
    /\ IF AfterFinally(s_failed) = "except"
       THEN SessExcept
       ELSE /\ s_pc' = "parse"
            /\ UNCHANGED <<s_status, s_error>>
    /\ UNCHANGED <<s_phase, s_sess, s_step, s_failed, s_log, s_parsed, s_hashes,
                   s_match, s_found, s_shown>>
    /\ UNCHANGED <<serverVars, rconVars, runnerVars, hashVars, chunkVars,
                   perfVars, mainVars>>

\* extract_test_results(get_server_log_path()) and the parser of the
\* phase; reading the file may raise LogParsingError.  The determinism
\* phase hashes what it got and goes on to its second session or to the
\* comparison; the other phases build their result.
SessParse ==
    /\ s_pc = "parse"
    /\ \/ /\ SessExcept
          /\ UNCHANGED <<s_trace, s_parsed, s_hashes>>
       \/ /\ s_trace' = Append(s_trace, <<s_sess, "parse">>)
          /\ s_parsed' = Append(s_parsed, ParsedLines(s_log, KindOf(s_phase)))
          /\ IF s_phase = "determinism"
             THEN /\ s_hashes' = Append(s_hashes, hash_inspection_results(
                         RecordsOf(ParsedLines(s_log, KindOf(s_phase)))))
                  /\ s_pc' = IF s_sess = 1 THEN "create" ELSE "compare"
                  /\ UNCHANGED <<s_status, s_error>>
             ELSE /\ \E verdict \in {"PASS", "FAIL"} : s_status' = verdict
                  /\ s_pc' = "done"
                  /\ UNCHANGED <<s_hashes, s_error>>
    /\ UNCHANGED <<s_phase, s_sess, s_step, s_failed, s_log, s_match, s_found,
                   s_shown, s_cleaned>>
    /\ UNCHANGED <<serverVars, rconVars, runnerVars, hashVars, chunkVars,
                   perfVars, mainVars>>

\* match = run1_hash == run2_hash; on a mismatch _log_result_differences;
\* create_determinism_result.
SessCompare ==
    /\ s_pc = "compare"
    /\ LET m == s_hashes[1] = s_hashes[2]
           diffs == Differences(RecordsOf(s_parsed[1]), RecordsOf(s_parsed[2]))
       IN  /\ s_match' = m
           /\ s_found' = IF m THEN 0 ELSE Len(diffs)
           /\ s_shown' = IF m THEN <<>> ELSE Shown(diffs)
           /\ s_status' = create_determinism_result(m)
    /\ s_trace' = Append(s_trace, <<s_sess, "compare">>)
    /\ s_pc' = "done"
    /\ UNCHANGED <<s_phase, s_sess, s_step, s_failed, s_log, s_parsed, s_hashes,
                   s_error, s_cleaned>>
    /\ UNCHANGED <<serverVars, rconVars, runnerVars, hashVars, chunkVars,
                   perfVars, mainVars>>

NextSession ==
    \/ EarlierPhase
    \/ \E ph \in SessionPhases : SessBegin(ph)
    \/ SessCreate
    \/ SessStep
    \/ SessFinally
    \/ SessParse
    \/ SessCompare

SpecSession == InitSession /\ [][NextSession]_vars

\* ================================================================ claims
ZPcs == {"z_scan", "z_check", "z_term", "z_poll", "z_kill", "z_wait"}
StartPcs == ZPcs \cup {"delete_world", "launch", "phase1", "phase2"}
StartReturned == op = "start" /\ pc = "idle"

\* C1: when start() raises, everything this start() acquired has been
\* released: after a failed launch no open log handle, after a failure of
\* the readiness wait no process handle and no open log handle.
C1_StartFailureReleasesAll ==
    (StartReturned /\ raised # "none") =>
        /\ why = "launch" => server_log_handle # "open"
        /\ why \in {"exited", "timeout", "rcon"} =>
             (process = None /\ server_log_handle # "open")

\* C2: start() returns normally, with the client set, only after the marker
\* was read from the log and a later probe succeeded; probes are made only
\* once the marker has been read.
C2_ReadyNeedsMarkerThenProbe ==
    /\ [](/\ (StartReturned /\ raised = "none") =>
               (log_ready /\ probeOk /\ rcon_client)
          /\ probes > 0 => log_ready
          /\ pc = "phase2" => log_ready)
    /\ [][/\ (log_ready' /\ ~log_ready) => (pc = "phase1" /\ logMarker /\ probes = 0)
          /\ (rcon_client' /\ ~rcon_client) => (pc = "phase2" /\ log_ready /\ probeOk')
          /\ (probes' > probes) => (pc = "phase2" /\ log_ready)]_vars

C2_Witness ==
    /\ StartReturned
    /\ raised = "none"
    /\ rcon_client
    /\ log_ready
    /\ probeOk
    /\ probes > 1

\* C3: marker read, child alive, every probe failed: start() ends with
\* ServerStartupError, does not return normally and does not set the client.
C3_ProbesExhaustedIsFailure ==
    /\ []((StartReturned /\ log_ready /\ ~probeOk) =>
             (raised = "ServerStartupError" /\ why = "rcon"))
    /\ [][(pc = "phase2" /\ probes' > probes /\ ~probeOk') =>
             (rcon_client' = rcon_client /\ pc' \in {"phase2", "idle"})]_vars

C3_Witness ==
    /\ StartReturned
    /\ log_ready
    /\ ~probeOk
    /\ probes = RCON_READY_RETRIES
    /\ process # None
    /\ osAlive[process]
    /\ raised = "ServerStartupError"
    /\ ~rcon_client

\* C4: in phase 1 a poll that finds the child exited before the marker was
\* read raises ServerCrashError there and then, before the deadline; the
\* deadline passing without the marker raises ServerStartupError; neither
\* is ever reported as the other.
C4_CrashVersusTimeout ==
    /\ []((raised = "ServerCrashError") => (op = "start" /\ why = "exited" /\ ~log_ready))
    /\ [][/\ (pc = "phase1" /\ raised' = "ServerCrashError") =>
               (~osAlive[process] /\ elapsed < timeout /\ ~log_ready)
          /\ (pc = "phase1" /\ raised' = "ServerStartupError") =>
               (why' = "timeout" /\ ~(elapsed < timeout) /\ ~log_ready)
          /\ (pc = "phase1" /\ ext' = ext /\ elapsed < timeout /\ ~osAlive[process]) =>
               (raised' = "ServerCrashError" /\ pc' = "idle")
          /\ (pc = "phase1" /\ ext' = ext /\ ~(elapsed < timeout)) =>
               (raised' = "ServerStartupError" /\ pc' = "idle")]_vars

C4_Witness ==
    /\ StartReturned
    /\ raised = "ServerCrashError"
    /\ process # None
    /\ ~osAlive[process]
    /\ ~log_ready

\* C5: cleanup() never raises, and when it returns the process handle, the
\* log handle and the client are all None.
C5_CleanupNeverRaisesAndNulls ==
    (op = "cleanup" /\ pc = "idle") =>
        /\ raised = "none"
        /\ process = None
        /\ server_log_handle = "None"
        /\ ~rcon_client

C5_Witness ==
    /\ op = "cleanup"
    /\ pc = "idle"
    /\ process = None
    /\ sent = <<"SIGTERM", "SIGKILL">>

\* A stop() or cleanup() call made while the controller holds no process.
CallWithoutProcess ==
    /\ pc = "idle"
    /\ process = None
    /\ pc' = "idle"
    /\ op' \in {"stop", "cleanup"}
    /\ ext' = ext

\* C6 as stated: cleanup() or stop() invoked without a process sends
\* nothing and leaves the controller state unchanged.
C6_NoProcessNoChange ==
    [][CallWithoutProcess => (sent' = <<>> /\ ctrl' = ctrl)]_vars

\* C6 as amended: cleanup() or stop() invoked without a process sends no
\* command and no signal; stop() leaves the controller unchanged, cleanup()
\* changes at most the log handle that a failed launch left closed, to
\* None, so a cleanup() after a cleanup() changes nothing.
C6_NoProcessOnlyDropsClosedHandle ==
    [][CallWithoutProcess =>
         /\ sent' = <<>>
         /\ raised' = "none"
         /\ process' = process
         /\ rcon_client' = rcon_client
         /\ op' = "stop" => server_log_handle' = server_log_handle
         /\ op' = "cleanup" =>
              /\ server_log_handle \in {"None", "closed"}
              /\ server_log_handle' = "None"]_vars

C6_Witness ==
    /\ op = "cleanup"
    /\ pc = "idle"
    /\ sent = <<>>
    /\ nextPid = MaxZombies + 1
    /\ ctrl = <<None, "None", FALSE>>

\* C7: while the controller holds a process, start() neither launches
\* another one nor replaces the process or log handle: the handles of a
\* held session are only ever released.
C7_StartOnlyWhenIdle ==
    [][process # None =>
         /\ process' \in {process, None}
         /\ server_log_handle' \in {server_log_handle, "None"}]_vars

\* C8: cleanup_zombie_processes returns normally only with both required
\* ports free.
C8_ReturnsOnlyWithPortsFree ==
    [][(pc \in ZPcs /\ pc' \notin ZPcs /\ raised' = "none") =>
         \A pt \in PortSet : port[pt] = Free]_vars

\* C9: SIGKILL goes only to a PID that was sent SIGTERM before and was
\* still there at every one of the at most 3 one-second polls made since,
\* never to a PID seen gone.
C9_SigkillOnlyAfterSigtermAndPolls ==
    /\ [](/\ polls <= KillPolls
          /\ pc = "z_poll" => (termed /\ lastPoll = "alive")
          /\ pc = "z_kill" => (termed /\ lastPoll = "alive"))
    /\ [][/\ (sigkill' # sigkill /\ sigkill' # {}) =>
               /\ pc = "z_kill"
               /\ sigkill' = sigkill \cup {Head(pids_to_kill)}
               /\ termed
               /\ lastPoll = "alive"
               /\ (polls = KillPolls \/ elapsed > zTimeout)
          /\ (polls' > polls) =>
               (pc = "z_poll" /\ termed /\ elapsed' = elapsed + KillPollSleep)
          /\ (termed' /\ ~termed) => (pc = "z_term" /\ polls = 0)]_vars

C9_Witness ==
    /\ pc = "z_wait"
    /\ sigkill # {}

\* C10: the port wait running out of time with a port still seen bound
\* raises PortInUseError; start() passes it on and launches nothing.
C10_PortsStillBoundRaises ==
    /\ []((raised = "PortInUseError") =>
             (pc = "idle" /\ op \in {"start", "cleanup_zombie_processes"}))
    /\ [][/\ (pc = "z_wait" /\ ext' = ext /\ ~(elapsed < zTimeout)) =>
               (raised' = "PortInUseError" /\ pc' = "idle" /\ ctrl' = ctrl)
          /\ (pc = "z_wait" /\ pc' = "z_wait" /\ elapsed' # elapsed) =>
               (\E pt \in PortSet : port[pt] # Free)
          /\ (raised' = "PortInUseError" /\ raised # "PortInUseError") =>
               (pc = "z_wait" /\ ~(elapsed < zTimeout) /\ nextPid' = nextPid)]_vars

C10_Witness ==
    /\ StartReturned
    /\ raised = "PortInUseError"
    /\ \E pt \in PortSet : port[pt] # Free
    /\ process = None
    /\ nextPid = MaxZombies + 1

NoPortOccupied == \A pt \in PortSet : port[pt] = Free

\* C11: cleanup_zombie_processes entered with both ports free returns at
\* once: no signal, no port wait, no exception, controller and machine as
\* they were, so a repetition finds the same situation.
C11_NoOccupantNoOp ==
    [][(pc = "z_scan" /\ NoPortOccupied /\ pc' # pc) =>
         /\ pc' \notin ZPcs
         /\ raised' = "none"
         /\ termed' = FALSE
         /\ sigkill' = {}
         /\ elapsed' = elapsed
         /\ ctrl' = ctrl
         /\ ext' = ext]_vars

C11_Witness ==
    /\ op = "cleanup_zombie_processes"
    /\ pc = "idle"
    /\ raised = "none"
    /\ NoPortOccupied
    /\ \A p \in Pids : ~osAlive[p]
    /\ nextPid = MaxZombies + 1
    /\ elapsed = 0

Last(s) == s[Len(s)]
AttemptsMade == Len(SelectSeq(rc_trace, LAMBDA x : x # "sleep"))
SleepsMade == Len(SelectSeq(rc_trace, LAMBDA x : x = "sleep"))

\* C12: an attempt of send_command that times out, the first or a later
\* one, ends the call with RCONTimeoutError: it is the last attempt, no
\* sleep follows, the retry budget does not matter.
C12_TimeoutNotRetried ==
    /\ [](\A i \in DOMAIN rc_trace :
            rc_trace[i] = "TimeoutExpired" =>
              /\ i = Len(rc_trace)
              /\ rc_pc = "idle"
              /\ rc_raised = "RCONTimeoutError"
              /\ result = "None")
    /\ [][(rc_trace' # rc_trace /\ rc_trace' # <<>> /\ Last(rc_trace') = "TimeoutExpired") =>
            /\ rc_slept' = rc_slept
            /\ attempt' = attempt
            /\ rc_pc' = "idle"]_vars

C12_Witness ==
    /\ rc_pc = "idle"
    /\ rc_raised = "RCONTimeoutError"
    /\ attempt > 0
    /\ attempt < retries
    /\ rc_slept = attempt * retry_delay

\* C13: k connection-level failures followed by a success, k <= retries:
\* send_command returns the response after k+1 attempts with one sleep of
\* retry_delay after each of the k failures.
C13_SuccessAfterKFailures ==
    /\ []((rc_pc = "idle" /\ rc_trace # <<>> /\ Last(rc_trace) = "ok") =>
            LET k == (Len(rc_trace) - 1) \div 2 IN
            /\ rc_raised = "none"
            /\ result = "response"
            /\ k <= retries
            /\ Len(rc_trace) = 2 * k + 1
            /\ \A i \in 1..k : /\ rc_trace[2 * i - 1] \in ConnectionErrors
                               /\ rc_trace[2 * i] = "sleep"
            /\ AttemptsMade = k + 1
            /\ SleepsMade = k
            /\ rc_slept = k * retry_delay)
    /\ [][(rc_trace' # rc_trace /\ rc_trace' # <<>> /\ Last(rc_trace') = "ok") =>
            (rc_pc' = "idle" /\ result' = "response" /\ rc_raised' = "none")]_vars

C13_Witness ==
    /\ rc_pc = "idle"
    /\ result = "response"
    /\ retries = MaxRetries
    /\ attempt = retries
    /\ retry_delay = MaxRetryDelay
    /\ rc_slept = retries * retry_delay

\* C14: retries+1 connection-level failures: RCONConnectionError chained
\* to the last failure, after retries+1 attempts and retries sleeps, none
\* after the last attempt; never more than retries+1 attempts.
C14_ExhaustionRaisesConnectionError ==
    /\ AttemptsMade <= retries + 1
    /\ (rc_pc = "idle" /\ rc_trace # <<>> /\ Last(rc_trace) \in ConnectionErrors) =>
         /\ rc_raised = "RCONConnectionError"
         /\ rc_cause = Last(rc_trace)
         /\ last_error = Last(rc_trace)
         /\ result = "None"
         /\ AttemptsMade = retries + 1
         /\ SleepsMade = retries
         /\ rc_slept = retries * retry_delay
    /\ rc_raised = "RCONConnectionError" =>
         /\ AttemptsMade = retries + 1
         /\ \A i \in DOMAIN rc_trace : rc_trace[i] \in ConnectionErrors \cup {"sleep"}

C14_Witness ==
    /\ rc_pc = "idle"
    /\ rc_raised = "RCONConnectionError"
    /\ retries = MaxRetries
    /\ rc_trace[1] = "OSError"
    /\ rc_cause = "CalledProcessError"

\* C15: a non-zero/error response of the channel client ends send_command
\* with RCONCommandError.
C15_ErrorResponseRaisesCommandError ==
    (rc_pc = "idle" /\ rc_trace # <<>> /\ Last(rc_trace) = "CalledProcessError") =>
        rc_raised = "RCONCommandError"

\* Position of a command or signal in the order of stop().
Kind(tok) ==
    CASE tok \in {"save-all", "save-all:failed"} -> 1
      [] tok \in {"stop", "stop:failed"} -> 2
      [] tok \in {"SIGTERM", "SIGTERM:failed"} -> 3
      [] tok \in {"SIGKILL", "SIGKILL:failed"} -> 4

Appended(k) == Len(sent') = Len(sent) + 1 /\ Kind(Last(sent')) = k

\* C16: stop() keeps the order save, stop, wait, SIGTERM, grace wait,
\* SIGKILL; SIGTERM only after the wait timed out, SIGKILL only after a
\* SIGTERM attempt that left the process running, no signal after a natural
\* exit within the timeout.
C16_StopOrder ==
    /\ [](\A i, j \in DOMAIN sent : i < j => Kind(sent[i]) < Kind(sent[j]))
    /\ [][/\ (pc = "idle" /\ pc' \notin {"idle", "z_scan"} /\ rcon_client) => pc' = "stop_save"
          /\ (pc = "stop_save" /\ pc' # pc) => (pc' = "stop_cmd" /\ Appended(1))
          /\ (pc = "stop_cmd" /\ pc' # pc) => (pc' = "stop_wait" /\ Appended(2))
          /\ (pc' = "force_term" /\ pc # "force_term") =>
               (pc = "stop_wait" /\ osAlive[process] /\ osAlive'[process] /\ sent' = sent)
          /\ Appended(3) => pc = "force_term"
          /\ (pc' = "force_kill" /\ pc # "force_kill") =>
               (pc = "force_term" /\ Appended(3) /\ osAlive'[process])
          /\ Appended(4) => (pc = "force_kill" /\ sent # <<>> /\ Kind(Last(sent)) = 3)
          /\ (pc = "stop_wait" /\ pc' = "idle") =>
               (sent' = sent /\ ~osAlive'[process])]_vars

C16_Witness ==
    /\ op = "stop"
    /\ pc = "idle"
    /\ sent = <<"save-all", "stop", "SIGTERM", "SIGKILL">>
    /\ process = None

\* C17: a failed save command does not keep the stop command from being
\* sent, a failed stop command does not keep the wait and the signals from
\* running; stop() does not raise and ends with the handles released.
C17_ChannelFailuresSwallowed ==
    /\ []((op = "stop" /\ pc = "idle") =>
            /\ raised = "none"
            /\ process = None
            /\ ~rcon_client
            /\ server_log_handle # "open")
    /\ [][/\ (pc = "stop_save" /\ sent' # sent) => (pc' = "stop_cmd" /\ raised' = "none")
          /\ (pc = "stop_cmd" /\ sent' # sent) => (pc' = "stop_wait" /\ raised' = "none")
          /\ (pc = "stop_wait" /\ pc' = "idle") => ctrl' = <<None, "None", FALSE>>
          /\ (pc \in {"force_term", "force_kill"} /\ pc' = "idle") =>
               ctrl' = <<None, "None", FALSE>>]_vars

C17_Witness ==
    /\ op = "stop"
    /\ pc = "idle"
    /\ raised = "none"
    /\ sent = <<"save-all:failed", "stop:failed", "SIGTERM", "SIGKILL">>
    /\ ctrl = <<None, "None", FALSE>>

Recognized(names) == SelectSeq(names, LAMBDA n : n \in PhaseNames)
ResultNames == [i \in DOMAIN results |-> results[i].name]
Handled == IF r_pc = "idle" THEN 0 ELSE idx - 1

\* C18: run_tests does not raise whatever fails inside a phase; the
\* recognized names of the list are executed once each in list order, and
\* each adds exactly one result, in that order; a failed phase is followed
\* by the next one.
C18_EveryPhaseRunsOnce ==
    /\ run_raised = "none"
    /\ ResultNames = Recognized(SubSeq(test_names, 1, Handled))
    /\ executed = Recognized(SubSeq(test_names, 1, IF InPhase THEN idx ELSE Handled))
    /\ r_pc = "returned" => idx = Len(test_names) + 1
    /\ InPhase => (idx \in DOMAIN test_names /\ test_names[idx] \in PhaseNames)

C18_Witness ==
    /\ r_pc = "returned"
    /\ Len(results) = MaxTests
    /\ results[1].cause = "exception"
    /\ results[1].name = "performance"
    /\ results[1].duration = CrashDuration
    /\ results[MaxTests].status = "PASS"

\* C19: an exception raised inside a phase becomes a result with status
\* ERROR that carries the time spent in the phase up to the failure.
C19_ExceptionBecomesErrorResult ==
    \A i \in DOMAIN results :
        results[i].cause = "exception" =>
            (results[i].status = "ERROR" /\ results[i].duration > 0)

\* C20: when a phase function is left, by return or by exception,
\* cleanup() was called on every controller whose start() was attempted in
\* it, and self.server is None.
C20_TeardownOnEveryExit ==
    (r_pc \in {"loop", "returned"}) =>
        /\ server = None
        /\ started \subseteq cleaned
        /\ started \subseteq 1..created

C20_Witness ==
    /\ r_pc = "loop"
    /\ executed # <<>>
    /\ Last(executed) = "determinism"
    /\ created = 2
    /\ started = {1, 2}
    /\ cleaned = {1, 2}
    /\ server = None
    /\ Last(results).cause = "exception"
\* C21: at most one server session is active at any time: whenever a
\* session's start() begins or a phase is entered, cleanup() has completed
\* on every session started before; in the determinism phase the second
\* session starts only after the first one was stopped and cleaned up.
C21_OneSessionAtATime ==
    /\ [](Cardinality(started \ cleaned) <= 1)
    /\ [][(started' # started) => (started \subseteq cleaned)]_vars

C21_Witness ==
    /\ r_pc = "work"
    /\ test_names[idx] = "determinism"
    /\ run_no = 2
    /\ started = {1, 2}
    /\ cleaned = {1}
    /\ server = 2

\* C28: when the launched process has exited before readiness is
\* reported, in phase 1 or while the command channel is being probed in
\* phase 2, start() ends by raising ServerCrashError.
C28_ExitBeforeReadyIsCrash ==
    [][(pc \in {"phase1", "phase2"} /\ pc' = "idle" /\ ~osAlive[process])
          => raised' = "ServerCrashError"]_vars

C30_CleanupThenDeleteThenLaunch ==
    [][/\ (process' # process /\ process' # None)
            => (pc = "launch" /\ op = "start" /\ raised = "none")
       /\ (pc' = "launch" /\ pc # "launch") => pc = "delete_world"
       /\ (pc' = "delete_world" /\ pc # "delete_world")
            => (pc \in ZPcs /\ op = "start" /\ raised' = "none")
       /\ (op = "start" /\ pc' \in ZPcs /\ pc \notin ZPcs) => pc = "idle"
       /\ (pc = "idle" /\ pc' # "idle" /\ op' = "start") => pc' = "z_scan"]_vars

C30_Witness ==
    /\ pc = "phase1"
    /\ op = "start"
    /\ process = MaxZombies + 2
    /\ nextPid = MaxZombies + 3

\* Number of times a record occurs in a list; two lists are permutations
\* of each other when every record occurs equally often in both.
Occurrences(rs, r) == Cardinality({i \in DOMAIN rs : rs[i] = r})
IsPermutation(a, b) ==
    /\ Len(a) = Len(b)
    /\ \A i \in DOMAIN a : Occurrences(a, a[i]) = Occurrences(b, a[i])
DistinctCoordinates(rs) ==
    \A i, j \in DOMAIN rs :
        (rs[i].x = rs[j].x /\ rs[i].y = rs[j].y /\ rs[i].z = rs[j].z) => i = j
\* b is a with the actual label of exactly one record changed.
OneLabelChanged(a, b) ==
    /\ Len(a) = Len(b)
    /\ \E i \in DOMAIN a :
         /\ a[i].actual_biome # b[i].actual_biome
         /\ a[i].x = b[i].x /\ a[i].y = b[i].y /\ a[i].z = b[i].z
         /\ \A j \in DOMAIN a : j # i => a[j] = b[j]

\* C22: every permutation of a list of inspection records, records that
\* share a coordinate included, hashes to the same digest.
C22_HashOrderIndependent ==
    (h_pc = "compared" /\ IsPermutation(run1_results, run2_results))
        => run1_hash = run2_hash

\* C23: two lists with the same records hash to equal digests and match
\* (in any order when no coordinate occurs twice), and changing the actual
\* label of a single record changes the digest, so the lists do not match.
C23_EqualSetsMatchRelabelDiffers ==
    h_pc = "compared" =>
        /\ match = (run1_hash = run2_hash)
        /\ run1_results = run2_results => match
        /\ (IsPermutation(run1_results, run2_results)
              /\ DistinctCoordinates(run1_results)) => match
        /\ OneLabelChanged(run1_results, run2_results) => ~match

C23_Witness ==
    /\ h_pc = "compared"
    /\ Len(run1_results) = 2
    /\ OneLabelChanged(run1_results, run2_results)
    /\ ~DistinctCoordinates(run1_results)
    /\ ~match

\* C26: for a non-empty coordinate list calculate_chunks(b) yields a
\* superset of what calculate_chunks(0) yields, and the same chunk set
\* for every permutation of the coordinates.
C26_BufferSupersetOrderFree ==
    c_pc = "calculated" =>
        /\ ChunksOf(coordinates, 0) \subseteq chunks
        /\ \A f \in Permutations(DOMAIN coordinates) :
             ChunksOf([i \in DOMAIN coordinates |-> coordinates[f[i]]],
                      buffer_size) = chunks

C26_Witness ==
    /\ c_pc = "calculated"
    /\ Len(coordinates) = MaxCoordinates
    /\ coordinates[1] # coordinates[2]
    /\ buffer_size > 0
    /\ ChunksOf(coordinates, 0) # chunks
    /\ <<-2, -1>> \in ChunksOf(coordinates, 0)

\* The phase ran to its last statement: no exception, statistics looked up.
PerfCompleted == p_pc = "done" /\ p_error \in {"none", "no_stats"}

\* C24: the status of the performance phase is PASS exactly when the p99_ms
\* the process reported is strictly below the p99 threshold given by the
\* caller, and FAIL otherwise; a profile_stats line without p99_ms counts
\* as p99_ms 0.
C24_PassIffP99BelowThreshold ==
    /\ p_pc = "done" => p_status \in {"PASS", "FAIL"}
    /\ (p_pc = "done" /\ ~PerfCompleted) => p_status = "FAIL"
    /\ PerfCompleted =>
         /\ ~stats.found => p_status = "FAIL"
         /\ (stats.found /\ stats.has_p99)
              => (p_status = "PASS" <=> stats.p99_ms < p99_threshold)
         /\ (stats.found /\ ~stats.has_p99)
              => (p_status = "PASS" <=> 0 < p99_threshold)

C24_Witness ==
    /\ PerfCompleted
    /\ stats.found
    /\ stats.has_p99
    /\ stats.p99_ms = 50
    /\ p99_threshold = 50
    /\ p_status = "FAIL"

\* C25 as stated: once recording was started, the phase never ends with
\* the profiler's recording flag still set.
C25_NeverEndsRecording ==
    (p_pc \in {"tail", "done"} /\ rec_started) => ~recording

\* C25: once recording was started, `asprof stop` is run on every exit
\* path of the phase, by stop_recording() on the normal path and by
\* cleanup() in the except block, and the server is released; the
\* recording flag is cleared on every path through the except block, and
\* on the normal path unless the stop command timed out or raised.
C25_StopAttemptedOnEveryExit ==
    (p_pc \in {"tail", "done"} /\ rec_started) =>
        /\ stop_runs >= 1
        /\ perf_server = None
        /\ perf_cleaned
        /\ p_error = "exception" => (~recording /\ profiler_pid = None)
        /\ recording => stop_result \in {"TimeoutExpired", "Exception"}

C25_Witness ==
    /\ p_pc = "done"
    /\ rec_started
    /\ p_error = "exception"
    /\ stop_runs = 1
    /\ ~recording
    /\ stop_result = "TimeoutExpired"

AllPassed == \A i \in DOMAIN results : results[i].status = "PASS"

\* C27: the exit code is 130 when the run was interrupted by the user, 2
\* when an exception of the harness escaped the run, and otherwise 0
\* exactly when every executed phase passed and 1 when a phase failed or
\* ended in an error; a failure raised inside a phase never gives 2.
C27_ExitCodes ==
    m_pc = "exited" =>
        /\ exit_code \in {0, 1, 2, 130}
        /\ exit_code = 130 <=> m_raised = "KeyboardInterrupt"
        /\ exit_code = 2 <=> m_raised = "Exception"
        /\ m_raised = "Exception" => m_where \in {"setup", "report"}
        /\ m_raised = "none" =>
             /\ Len(results) = Len(executed)
             /\ exit_code = 0 <=> AllPassed
             /\ exit_code = 1 <=> ~AllPassed

C27_Witness ==
    /\ m_pc = "exited"
    /\ command = "all"
    /\ m_raised = "none"
    /\ Len(results) = 2
    /\ results[1].status = "PASS"
    /\ results[2].cause = "exception"
    /\ exit_code = 1

\* The caller's thread keeps running the steps of stop() and cleanup(): a
\* channel command returns or fails, a wait returns or times out.  Nothing
\* is assumed about the external process: it need never exit.
StopFairness ==
    /\ WF_vars(StopSave)
    /\ WF_vars(StopCmd)
    /\ WF_vars(StopWait /\ UNCHANGED osAlive)
    /\ WF_vars(ForceTerm /\ UNCHANGED osAlive)
    /\ WF_vars(ForceKill /\ UNCHANGED osAlive)

SpecStopLive == Spec /\ StopFairness

StopPcs == {"stop_save", "stop_cmd", "stop_wait", "force_term", "force_kill"}

StopRank(p) ==
    CASE p = "stop_save" -> 5
      [] p = "stop_cmd" -> 4
      [] p = "stop_wait" -> 3
      [] p = "force_term" -> 2
      [] p = "force_kill" -> 1
      [] OTHER -> 0

\* C31: stop() and cleanup() always terminate, whatever the process and
\* the command channel do: every step of theirs is one bounded wait that
\* moves them forward, and they end with process, log handle and channel
\* client set to None.
C31_StopTerminates ==
    /\ (pc \in StopPcs) ~>
          (pc = "idle" /\ op \in {"stop", "cleanup"} /\ process = None
             /\ server_log_handle = "None" /\ ~rcon_client)
    /\ [][(pc \in StopPcs /\ pc' # pc) => StopRank(pc') < StopRank(pc)]_vars

C31_Witness ==
    /\ op = "stop"
    /\ pc = "idle"
    /\ sent = <<"save-all:failed", "stop:failed", "SIGTERM", "SIGKILL">>
    /\ process = None
    /\ server_log_handle = "None"
    /\ ~rcon_client
    /\ osAlive[MaxZombies + 1]

\* C35: the channel client is set only while a process handle is held and
\* the most recent start() went through both readiness phases; after a
\* failed start there is no client and get_rcon() raises RuntimeError.
C35_ClientOnlyAfterReadyStart ==
    /\ rcon_client => process # None
    /\ (pc = "idle" /\ op = "start" /\ raised # "none") => ~rcon_client
    /\ (pc = "idle" /\ op = "get_rcon") =>
          (raised = "RuntimeError" <=> ~rcon_client)

ReadinessFailures == {"timeout", "exited", "rcon"}
Signals == {"SIGTERM", "SIGTERM:failed", "SIGKILL", "SIGKILL:failed"}

C38_RaisesOnlyWithPortSeenBound ==
    [][(pc \in ZPcs /\ raised' = "PortInUseError")
          => (\E pt \in PortSet : port[pt] # Free)]_vars


\* The calls already made on the command channel in the performance phase.
Issued == SubSeq(Commands(warmup), 1, p_cmd)

\* C33: in the performance phase, when a warmup batch is generated
\* (warmup_chunks > 0) a counter reset is issued after the warmup batch and
\* before the measured batch; the statistics command is issued only after
\* the measured batch, and no reset lies between the measured batch and
\* the statistics command.  The calls are made one at a time, in order.
C33_ResetBetweenWarmupAndMeasured ==
    /\ [](p_pc = "commands" =>
         /\ \A i \in DOMAIN Issued :
              (warmup /\ Issued[i] = "generate") =>
                 \E j \in 1..(i - 1) :
                    /\ Issued[j] = "profile_reset"
                    /\ \E k \in 1..(j - 1) : Issued[k] = "generate_warmup"
                    /\ \A k \in (j + 1)..(i - 1) : Issued[k] # "generate_warmup"
         /\ \A i \in DOMAIN Issued :
              Issued[i] = "profile_stats" =>
                 \E j \in 1..(i - 1) :
                    /\ Issued[j] = "generate"
                    /\ \A k \in (j + 1)..(i - 1) : Issued[k] # "profile_reset"
         /\ \A i \in DOMAIN Issued :
              Issued[i] = "generate_warmup" => warmup)
    /\ [][(p_pc = "commands" /\ p_pc' = "commands" /\ p_cmd' # p_cmd)
            => p_cmd' = p_cmd + 1]_vars

C33_Witness ==
    /\ p_pc = "commands"
    /\ warmup
    /\ Issued = <<"get_rcon", "profile_reset", "generate_warmup",
                  "profile_reset", "generate", "profile_stats">>


\* The steps, cleanup and parse of session n, in the order they were done.
RECURSIVE OpsIn(_, _)
OpsIn(tr, n) ==
    IF tr = <<>> THEN <<>>
    ELSE LET rest == OpsIn(SubSeq(tr, 1, Len(tr) - 1), n)
             e == tr[Len(tr)]
         IN  IF e[1] = n /\ e[2] # "compare" THEN Append(rest, e[2]) ELSE rest

\* What one session may have done so far: some first steps of the phase,
\* then the cleanup, then, only after all steps, the parse.
SessionOrders(ph) ==
    LET steps == SessionSteps(ph) IN
    {SubSeq(steps, 1, k) : k \in 0..Len(steps)}
      \cup {SubSeq(steps, 1, k) \o <<"cleanup">> : k \in 0..Len(steps)}
      \cup {steps \o <<"cleanup", "parse">>}

\* C32: in the accuracy phase and in each determinism session the
\* operations occur in the order start, copy of the two input files,
\* chunk-load command, tick-sprint command, settle delay, inspection
\* command, stop, parse; a step is taken only after the one before it
\* returned, a failing step skips all later ones, and the log is parsed
\* only after the session was stopped and cleaned up.
C32_SessionOrder ==
    /\ [](s_phase \in {"accuracy", "determinism"} =>
            /\ SessionSteps(s_phase) =
                 <<"start", "copy_chunk_list", "copy_baseline", "get_rcon",
                   "forceload_chunks", "tick_sprint", "settle", "batch_inspect",
                   "stop">>
            /\ \A n \in 1..s_sess : OpsIn(s_trace, n) \in SessionOrders(s_phase)
            /\ \A i, j \in DOMAIN s_trace : i < j => s_trace[i][1] <= s_trace[j][1])
    /\ [][(s_phase \in {"accuracy", "determinism"} /\ s_failed' /\ s_pc = "step")
            => (s_trace' = s_trace /\ s_pc' = "finally")]_vars
    /\ [][(s_phase \in {"accuracy", "determinism"} /\ s_failed)
            => s_trace' \in {s_trace, Append(s_trace, <<s_sess, "cleanup">>)}]_vars

C32_Witness ==
    /\ s_phase = "determinism"
    /\ s_pc = "done"
    /\ OpsIn(s_trace, 1) = SessionSteps("determinism") \o <<"cleanup", "parse">>
    /\ OpsIn(s_trace, 2) = <<"start", "copy_chunk_list", "copy_baseline",
                             "get_rcon", "forceload_chunks", "cleanup">>


\* C37: what a phase parses for a session holds only lines written during
\* that session: a start() that launches a process empties the shared
\* server log first, and every parse follows a launch of the same session,
\* so the second determinism run never reads the records of the first and
\* no phase reads lines an earlier phase left behind.
C37_ParsedLinesAreOwn ==
    /\ [](/\ \A n \in DOMAIN s_parsed :
               \A i \in DOMAIN s_parsed[n] : s_parsed[n][i].sess = n
          /\ s_pc = "parse" =>
               /\ <<s_sess, "start">> \in Range(s_trace)
               /\ \A i \in DOMAIN s_log : s_log[i].sess = s_sess)
    /\ [][(s_pc = "step" /\ s_step = 0 /\ s_step' = 1) => s_log' = <<>>]_vars

C37_Witness ==
    /\ s_phase = "determinism"
    /\ s_pc = "compare"
    /\ RecordsOf(s_parsed[1]) = <<Rec(0, "plains")>>
    /\ RecordsOf(s_parsed[2]) = <<Rec(0, "desert")>>
    /\ s_log = LogLines(2, "batch_inspect", <<Rec(0, "desert")>>)


\* The first determinism session has failed: one of its steps raised, or
\* reading its log raised.
FirstSessionFailed ==
    /\ s_phase = "determinism"
    /\ s_sess = 1
    /\ s_pc = "done"
    /\ s_parsed = <<>>

\* C39: when the first session of the determinism phase fails at any step
\* (start, file copy, a command, parsing) the second session is never
\* started, no digests are compared, and the phase ends with one result
\* that is not PASS and carries the error; the first session is cleaned up
\* all the same.
C39_FirstFailureEndsPhase ==
    /\ [](s_phase = "determinism" =>
            /\ s_sess = 2 => <<1, "parse">> \in Range(s_trace)
            /\ <<2, "compare">> \in Range(s_trace) => Len(s_parsed) = 2
            /\ FirstSessionFailed =>
                 /\ s_status = "FAIL"
                 /\ s_error = "exception"
                 /\ s_hashes = <<>>
                 /\ ~s_match
                 /\ 1 \in s_cleaned
                 /\ Last(s_trace) = <<1, "cleanup">>)
    /\ [][(s_phase = "determinism" /\ s_sess = 1 /\ s_pc = "finally" /\ s_failed)
            => (s_pc' = "done" /\ s_parsed' = <<>> /\ s_sess' = 1)]_vars
    /\ [][(s_phase = "determinism" /\ s_sess = 1 /\ s_pc = "parse"
             /\ s_parsed' = <<>>)
            => (s_pc' = "done" /\ s_sess' = 1)]_vars

C39_Witness ==
    /\ FirstSessionFailed
    /\ s_trace = <<<<1, "start">>, <<1, "copy_chunk_list">>, <<1, "cleanup">>>>
    /\ s_status = "FAIL"


\* Both determinism sessions ran to the end and their logs were read.
BothSessionsCompleted ==
    /\ s_error = "none"
    /\ Len(s_parsed) = 2
    /\ \A n \in {1, 2} :
         OpsIn(s_trace, n) = SessionSteps("determinism") \o <<"cleanup", "parse">>

\* C40: the determinism phase ends with status PASS exactly when both
\* sessions completed without an exception and their digests are equal,
\* and with FAIL otherwise; two sessions without any inspection record
\* have equal digests and pass.
C40_PassIffCompletedAndEqual ==
    (s_phase = "determinism" /\ s_pc = "done") =>
        /\ s_status \in {"PASS", "FAIL"}
        /\ s_status = "PASS" <=>
             /\ BothSessionsCompleted
             /\ Len(s_hashes) = 2
             /\ s_hashes[1] = s_hashes[2]
        /\ BothSessionsCompleted =>
             /\ \A n \in {1, 2} :
                  s_hashes[n] = hash_inspection_results(RecordsOf(s_parsed[n]))
             /\ (s_parsed[1] = <<>> /\ s_parsed[2] = <<>>) => s_status = "PASS"

C40_Witness ==
    /\ s_phase = "determinism"
    /\ s_pc = "done"
    /\ BothSessionsCompleted
    /\ s_parsed = <<<<>>, <<>>>>
    /\ s_hashes[1] = s_hashes[2]
    /\ s_status = "PASS"


\* The labels a run holds at a coordinate.
LabelsAt(run, c) == {run[i].actual_biome : i \in {j \in DOMAIN run : CoordOf(run[j]) = c}}

\* A coordinate differs between two runs when the labels found at it
\* differ, an absent coordinate having none; where a run holds several
\* records at the coordinate its last one counts.
DiffersAt(run1, run2, c) ==
    IF Cardinality({i \in DOMAIN run1 : CoordOf(run1[i]) = c}) <= 1
         /\ Cardinality({i \in DOMAIN run2 : CoordOf(run2[i]) = c}) <= 1
    THEN LabelsAt(run1, c) # LabelsAt(run2, c)
    ELSE MapGet(run1, c) # MapGet(run2, c)

DifferingCoords(run1, run2) ==
    {c \in {CoordOf(run1[i]) : i \in DOMAIN run1}
             \cup {CoordOf(run2[i]) : i \in DOMAIN run2} : DiffersAt(run1, run2, c)}

\* C34: on a determinism mismatch the diff has one entry for every
\* coordinate whose label differs between the runs or that only one run
\* holds, the entries are in sorted coordinate order, and at most the first
\* 10 are logged; the runs [(0,64,0,plains)] and [(0,64,0,desert)] give
\* exactly one entry.
C34_DiffEntries ==
    (s_pc = "done" /\ <<2, "compare">> \in Range(s_trace) /\ ~s_match) =>
        LET run1 == RecordsOf(s_parsed[1])
            run2 == RecordsOf(s_parsed[2])
            D == DifferingCoords(run1, run2)
        IN  /\ s_found = Cardinality(D)
            /\ Len(s_shown) = IF s_found < LogLimit THEN s_found ELSE LogLimit
            /\ \A i \in DOMAIN s_shown :
                 /\ s_shown[i].coord \in D
                 /\ s_shown[i].run1 =
                      IF LabelsAt(run1, s_shown[i].coord) = {} THEN "missing"
                      ELSE MapGet(run1, s_shown[i].coord)
                 /\ s_shown[i].run2 =
                      IF LabelsAt(run2, s_shown[i].coord) = {} THEN "missing"
                      ELSE MapGet(run2, s_shown[i].coord)
            /\ \A i, j \in DOMAIN s_shown :
                 i < j => CoordLess(s_shown[i].coord, s_shown[j].coord)
            /\ \A c \in D :
                 (\A i \in DOMAIN s_shown : s_shown[i].coord # c)
                    => \A i \in DOMAIN s_shown : CoordLess(s_shown[i].coord, c)
            /\ (run1 = <<Rec(0, "plains")>> /\ run2 = <<Rec(0, "desert")>>)
                 => s_shown = <<[coord |-> <<0, 64, 0>>, run1 |-> "plains",
                                 run2 |-> "desert"]>>

C34_Witness ==
    /\ s_pc = "done"
    /\ Len(s_parsed) = 2
    /\ ~s_match
    /\ RecordsOf(s_parsed[1]) = Grid("plains")
    /\ RecordsOf(s_parsed[2]) = Grid("desert")
    /\ s_found = MaxGrid
    /\ Len(s_shown) = LogLimit
    /\ s_shown[1].coord = <<1, 64, 0>>

====
